---------------------------- MODULE Spec2Model ----------------------------
(***************************************************************************)
(* Model of the DexArm blade-loader controller (src/dexarm_controller.py)  *)
(* and of the way the front end (src/blade_loader_gui.py) drives it.       *)
(*                                                                         *)
(* One worker executes the controller's operations statement by statement  *)
(* (pc names the source line the worker is about to execute); the front    *)
(* end's pause/resume/stop handlers run on another thread and interleave   *)
(* with it.  The firmware is a peer that answers every line it receives.   *)
(*                                                                         *)
(* Text (response lines, encoder tokens) is a sequence of one-character    *)
(* strings.  Coordinates are integers counting thousandths of a            *)
(* millimetre; the "%.2f" of a motion command yields hundredths.           *)
(* time.sleep() calls and the status callbacks have no effect on the       *)
(* state modelled here and are left out.                                   *)
(***************************************************************************)
EXTENDS Integers, Sequences, FiniteSets, TLC

(***************************************************************************)
(* Bounds of the model.                                                    *)
(***************************************************************************)
\* the longest hook list of a persisted record the controller starts from
MaxHooks == 2

(***************************************************************************)
(* Program constants.                                                      *)
(***************************************************************************)
\* settings['feedrate']
Feedrate == 3000
\* for _ in range(20) of read_encoder_position
EncAttempts == 20

(***************************************************************************)
(* Text helpers: the str methods the controller uses.                      *)
(***************************************************************************)
\* sub in s
Contains(s, sub) ==
    \E j \in 1..(Len(s) - Len(sub) + 1) : SubSeq(s, j, j + Len(sub) - 1) = sub

\* s.startswith(p)
StartsWith(s, p) == Len(s) >= Len(p) /\ SubSeq(s, 1, Len(p)) = p

\* c.lower() for the letters the protocol uses
LowerChar(c) == CASE c = "O" -> "o" [] c = "K" -> "k" [] OTHER -> c

\* s.lower()
Lower(s) == [j \in 1..Len(s) |-> LowerChar(s[j])]

IsSpace(c) == c \in {" ", "\n", "\r"}

\* s.strip()
RECURSIVE LStrip(_)
LStrip(s) == IF s # <<>> /\ IsSpace(Head(s)) THEN LStrip(Tail(s)) ELSE s

RECURSIVE RStrip(_)
RStrip(s) ==
    IF s # <<>> /\ IsSpace(s[Len(s)]) THEN RStrip(SubSeq(s, 1, Len(s) - 1)) ELSE s

Strip(s) == RStrip(LStrip(s))

\* s.split(): the maximal runs of non-whitespace characters
RECURSIVE SplitAcc(_, _, _)
SplitAcc(s, cur, acc) ==
    IF s = <<>>
    THEN IF cur = <<>> THEN acc ELSE Append(acc, cur)
    ELSE IF IsSpace(Head(s))
         THEN SplitAcc(Tail(s), <<>>, IF cur = <<>> THEN acc ELSE Append(acc, cur))
         ELSE SplitAcc(Tail(s), Append(cur, Head(s)), acc)

Split(s) == SplitAcc(s, <<>>, <<>>)

\* s.split(sep) for a one-character separator
RECURSIVE SplitOnAcc(_, _, _, _)
SplitOnAcc(s, sep, cur, acc) ==
    IF s = <<>>
    THEN Append(acc, cur)
    ELSE IF Head(s) = sep
         THEN SplitOnAcc(Tail(s), sep, <<>>, Append(acc, cur))
         ELSE SplitOnAcc(Tail(s), sep, Append(cur, Head(s)), acc)

SplitOn(s, sep) == SplitOnAcc(s, sep, <<>>, <<>>)

\* ' '.join(parts)
RECURSIVE Join(_)
Join(parts) ==
    IF parts = <<>> THEN <<>>
    ELSE IF Len(parts) = 1 THEN parts[1]
    ELSE parts[1] \o <<" ">> \o Join(Tail(parts))

\* s.replace(old, "")
RECURSIVE Remove(_, _)
Remove(s, old) ==
    IF s = <<>> THEN <<>>
    ELSE IF StartsWith(s, old) THEN Remove(SubSeq(s, Len(old) + 1, Len(s)), old)
    ELSE <<Head(s)>> \o Remove(Tail(s), old)

Digits == {"0", "1", "2", "3", "4", "5", "6", "7", "8", "9"}

DigitVal(c) ==
    CASE c = "0" -> 0 [] c = "1" -> 1 [] c = "2" -> 2 [] c = "3" -> 3 [] c = "4" -> 4
      [] c = "5" -> 5 [] c = "6" -> 6 [] c = "7" -> 7 [] c = "8" -> 8 [] c = "9" -> 9

RECURSIVE NatVal(_)
NatVal(s) == IF s = <<>> THEN 0 ELSE 10 * NatVal(SubSeq(s, 1, Len(s) - 1)) + DigitVal(s[Len(s)])

AllDigits(s) == \A j \in 1..Len(s) : s[j] \in Digits

\* float(s) succeeds: digits with at most one '.', at least one digit, at most
\* three decimals (the model's resolution)
IsFloat(s) ==
    LET p == SplitOn(s, ".")
    IN  /\ Len(p) \in {1, 2}
        /\ \A j \in 1..Len(p) : AllDigits(p[j])
        /\ \E j \in 1..Len(p) : p[j] # <<>>
        /\ Len(p) = 2 => Len(p[2]) <= 3

\* float(s), in thousandths
FloatVal(s) ==
    LET p == SplitOn(s, ".")
        frac == IF Len(p) = 2 THEN p[2] ELSE <<>>
        scale == CASE Len(frac) = 0 -> 1000 [] Len(frac) = 1 -> 100
                   [] Len(frac) = 2 -> 10 [] OTHER -> 1
    IN  1000 * NatVal(p[1]) + scale * NatVal(frac)

\* f"{v:.2f}": thousandths to hundredths.  The model's coordinates are never
\* exactly half-way between two hundredths.
Fmt2(v) == (v + 5) \div 10


(***************************************************************************)
(* Data: optional values are sequences of length 0 (None) or 1.            *)
(***************************************************************************)
None == <<>>
Some(v) == <<v>>

\* a taught Position {x, y, z, encoder}; encoder is None or Some(text)
Position(x, y, z, enc) == [x |-> x, y |-> y, z |-> z, encoder |-> enc]

\* Python truthiness of p.get('encoder'): neither None nor ''
Truthy(enc) == enc # None /\ enc[1] # <<>>

\* the text of the protocol tokens
S_M894 == <<"M", "8", "9", "4">>
S_ok == <<"o", "k">>
\* "M894 X1 Y2 Z3", "X1 Y2 Z3" and "e:M894": three lines that pass the filter
\* of read_encoder_position
EncFull == <<"M", "8", "9", "4", " ", "X", "1", " ", "Y", "2", " ", "Z", "3">>
EncBare == <<"X", "1", " ", "Y", "2", " ", "Z", "3">>
EncOdd == <<"e", ":", "M", "8", "9", "4">>
\* "X:10.00 Y:20.00 Z:5.00", the answer to M114
PosLine ==
    <<"X", ":", "1", "0", ".", "0", "0", " ", "Y", ":", "2", "0", ".", "0", "0", " ",
      "Z", ":", "5", ".", "0", "0">>

\* the default of load_positions
DefaultPositions == [pick |-> None, safe_z |-> 0, hooks |-> <<>>]

\* current_pos after __init__ and after go_home: {'x': 0, 'y': 300, 'z': 0}
HomePos == [x |-> 0, y |-> 300000, z |-> 0]

\* the Positions of the persisted records the model starts from
PickPool ==
    { Position(10004, 20000, 5000, None),
      Position(10000, 20000, 5000, Some(EncFull)),
      Position(10000, 20000, 5000, Some(EncOdd)) }

\* the hook a persisted record holds at index n - 1: hooks with an empty token
\* and hooks with a token alternate
HookPool(n) ==
    IF n % 2 = 1 THEN Position(30000, 40000, 5000, Some(<<>>))
    ELSE Position(35000, 40006, 6000, Some(EncBare))

(***************************************************************************)
(* The persisted record: json.dump and json.load.  A JSON text is the      *)
(* sequence of its tokens, each token a text; the white space that         *)
(* indent=2 puts between tokens, and that json.load skips, is left out.    *)
(***************************************************************************)
\* the keys of the persisted record and of its Positions, as text
KeyText(key) ==
    CASE key = "pick" -> <<"p", "i", "c", "k">>
      [] key = "safe_z" -> <<"s", "a", "f", "e", "_", "z">>
      [] key = "hooks" -> <<"h", "o", "o", "k", "s">>
      [] key = "x" -> <<"x">>
      [] key = "y" -> <<"y">>
      [] key = "z" -> <<"z">>
      [] key = "encoder" -> <<"e", "n", "c", "o", "d", "e", "r">>

Keys == {"pick", "safe_z", "hooks", "x", "y", "z", "encoder"}

\* the keys whose value is optional: None, or Some(value)
OptionalKeys == {"pick", "encoder"}

\* the decimal digits of a natural number
DigitChar(d) ==
    CASE d = 0 -> "0" [] d = 1 -> "1" [] d = 2 -> "2" [] d = 3 -> "3" [] d = 4 -> "4"
      [] d = 5 -> "5" [] d = 6 -> "6" [] d = 7 -> "7" [] d = 8 -> "8" [] d = 9 -> "9"

RECURSIVE Dec(_)
Dec(n) == IF n < 10 THEN <<DigitChar(n)>> ELSE Append(Dec(n \div 10), DigitChar(n % 10))

\* a number written with two decimals
JsonNumber_two_decimals(v) ==
    LET h == Fmt2(v)
    IN  Dec(h \div 100) \o <<".">> \o <<DigitChar((h \div 10) % 10), DigitChar(h % 10)>>

\* float.__repr__, which json.dump writes for a number: the shortest decimal
\* that reads back as the same value, with at least one decimal (an int is
\* written without decimals and reads back as the same number)
JsonNumber(v) ==
    LET m == v % 1000
        frac == IF m % 100 = 0 THEN <<DigitChar(m \div 100)>>
                ELSE IF m % 10 = 0 THEN <<DigitChar(m \div 100), DigitChar((m \div 10) % 10)>>
                ELSE <<DigitChar(m \div 100), DigitChar((m \div 10) % 10), DigitChar(m % 10)>>
    IN  Dec(v \div 1000) \o <<".">> \o frac

\* the escapes json.dump applies to the characters of a string
RECURSIVE JsonEscape(_)
JsonEscape(s) ==
    IF s = <<>> THEN <<>>
    ELSE IF Head(s) \in {"\"", "\\"} THEN <<"\\", Head(s)>> \o JsonEscape(Tail(s))
    ELSE <<Head(s)>> \o JsonEscape(Tail(s))

JsonString(s) == <<"\"">> \o JsonEscape(s) \o <<"\"">>

JsonNull == <<"n", "u", "l", "l">>

\* json.dump of one Position
JsonPosition(p) ==
    << <<"{">>, JsonString(KeyText("x")), <<":">>, JsonNumber(p.x), <<",">>,
       JsonString(KeyText("y")), <<":">>, JsonNumber(p.y), <<",">>,
       JsonString(KeyText("z")), <<":">>, JsonNumber(p.z), <<",">>,
       JsonString(KeyText("encoder")), <<":">>,
       IF p.encoder = None THEN JsonNull ELSE JsonString(p.encoder[1]), <<"}">> >>

\* json.dump of the hook list
RECURSIVE JsonItems(_)
JsonItems(h) ==
    IF h = <<>> THEN <<>>
    ELSE IF Len(h) = 1 THEN JsonPosition(h[1])
    ELSE JsonPosition(h[1]) \o << <<",">> >> \o JsonItems(Tail(h))

\* json.dump of the value the dictionary holds under one of its keys
JsonMember(d, key) ==
    << JsonString(KeyText(key)), <<":">> >> \o
    ( CASE key = "pick" -> IF d[key] = None THEN <<JsonNull>> ELSE JsonPosition(d[key][1])
        [] key = "safe_z" -> <<JsonNumber(d[key])>>
        [] key = "hooks" -> << <<"[">> >> \o JsonItems(d[key]) \o << <<"]">> >> )

RECURSIVE JsonMembers(_, _)
JsonMembers(d, keys) ==
    IF keys = <<>> THEN <<>>
    ELSE IF Head(keys) \notin DOMAIN d THEN JsonMembers(d, Tail(keys))
    ELSE JsonMember(d, Head(keys)) \o
         ( IF \E j \in 2..Len(keys) : keys[j] \in DOMAIN d THEN << <<",">> >> ELSE <<>> ) \o
         JsonMembers(d, Tail(keys))

\* json.dump(self.positions, f, indent=2): the text written for a dictionary
\* with some of the keys pick, safe_z, hooks
JsonDump(d) ==
    << <<"{">> >> \o JsonMembers(d, <<"pick", "safe_z", "hooks">>) \o << <<"}">> >>

\* the token at place p of a text, the empty token past its end
Tok(t, p) == IF p <= Len(t) THEN t[p] ELSE <<>>

\* a JSON number token, within the model's resolution
IsJsonNumber(c) ==
    LET p == SplitOn(c, ".")
    IN  /\ Len(p) \in {1, 2}
        /\ \A j \in 1..Len(p) : p[j] # <<>> /\ AllDigits(p[j])
        /\ Len(p) = 2 => Len(p[2]) <= 3

\* the characters between the quotes of a string token, escapes resolved; the
\* token is no string when a quote inside it is not escaped
RECURSIVE JsonUnescape(_)
JsonUnescape(s) ==
    IF s = <<>> THEN <<>>
    ELSE IF Head(s) = "\\" /\ Len(s) >= 2 THEN <<s[2]>> \o JsonUnescape(Tail(Tail(s)))
    ELSE <<Head(s)>> \o JsonUnescape(Tail(s))

RECURSIVE WellEscaped(_)
WellEscaped(s) ==
    IF s = <<>> THEN TRUE
    ELSE IF Head(s) = "\\" THEN Len(s) >= 2 /\ WellEscaped(Tail(Tail(s)))
    ELSE Head(s) # "\"" /\ WellEscaped(Tail(s))

IsJsonString(c) ==
    /\ Len(c) >= 2
    /\ c[1] = "\"" /\ c[Len(c)] = "\""
    /\ WellEscaped(SubSeq(c, 2, Len(c) - 1))

JsonStringValue(c) == JsonUnescape(SubSeq(c, 2, Len(c) - 1))

\* the key a string token names
KeyOf(c) == CHOOSE key \in Keys : JsonString(KeyText(key)) = c

\* the result of parsing a value: whether it parsed, the value, and the place
\* of the token after it
Parsed(v, p) == [ok |-> TRUE, v |-> v, p |-> p]
ParseError == [ok |-> FALSE, v |-> <<>>, p |-> 0]

\* d[key] = v, for a dictionary d
Put(d, key, v) == [q \in DOMAIN d \cup {key} |-> IF q = key THEN v ELSE d[q]]

\* json.load: a value is null, a number, a string, a list or a dictionary.
\* null is None; under an optional key any other value v is Some(v).
RECURSIVE JsonValue(_, _)
RECURSIVE JsonObject(_, _, _)
RECURSIVE JsonArray(_, _, _)
JsonValue(t, p) ==
    LET c == Tok(t, p)
    IN  IF c = JsonNull THEN Parsed(None, p + 1)
        ELSE IF c = <<"{">>
             THEN IF Tok(t, p + 1) = <<"}">> THEN Parsed(<<>>, p + 2)
                  ELSE JsonObject(t, p + 1, <<>>)
        ELSE IF c = <<"[">>
             THEN IF Tok(t, p + 1) = <<"]">> THEN Parsed(<<>>, p + 2)
                  ELSE JsonArray(t, p + 1, <<>>)
        ELSE IF IsJsonString(c) THEN Parsed(JsonStringValue(c), p + 1)
        ELSE IF IsJsonNumber(c) THEN Parsed(FloatVal(c), p + 1)
        ELSE ParseError

JsonObject(t, p, d) ==
    LET c == Tok(t, p)
    IN  IF ~(IsJsonString(c) /\ (\E key \in Keys : JsonString(KeyText(key)) = c)
             /\ Tok(t, p + 1) = <<":">>)
        THEN ParseError
        ELSE LET r == JsonValue(t, p + 2)
                 key == KeyOf(c)
                 v == IF key \in OptionalKeys /\ Tok(t, p + 2) # JsonNull
                      THEN Some(r.v) ELSE r.v
             IN  IF ~r.ok THEN ParseError
                 ELSE IF Tok(t, r.p) = <<",">> THEN JsonObject(t, r.p + 1, Put(d, key, v))
                 ELSE IF Tok(t, r.p) = <<"}">> THEN Parsed(Put(d, key, v), r.p + 1)
                 ELSE ParseError

JsonArray(t, p, a) ==
    LET r == JsonValue(t, p)
    IN  IF ~r.ok THEN ParseError
        ELSE IF Tok(t, r.p) = <<",">> THEN JsonArray(t, r.p + 1, Append(a, r.v))
        ELSE IF Tok(t, r.p) = <<"]">> THEN Parsed(Append(a, r.v), r.p + 1)
        ELSE ParseError

\* json.load(f): Some(value), or None when it raises
JsonLoad(t) ==
    LET r == JsonValue(t, 1)
    IN  IF r.ok /\ r.p = Len(t) + 1 THEN Some(r.v) ELSE None

\* load_positions, lines 239-245, on the file's content f (None: no file)
load_positions(f) ==
    IF f = None THEN DefaultPositions
    ELSE IF JsonLoad(f[1]) = None THEN DefaultPositions
    ELSE JsonLoad(f[1])[1]

\* the persisted record a controller with these positions was constructed
\* from: none for the default, else the text save_positions wrote
StoredAs(T) == IF T = DefaultPositions THEN None ELSE Some(JsonDump(T))

\* what load_positions can return: the default, or a record written earlier
LoadedPositions ==
    {DefaultPositions} \cup
    { [pick |-> p, safe_z |-> 50000, hooks |-> h] :
        p \in {None} \cup { Some(q) : q \in PickPool }, h \in { [n \in 1..m |-> HookPool(n)] : m \in 0..MaxHooks } }

(***************************************************************************)
(* Commands as written to the serial port, and lines read from it.         *)
(***************************************************************************)
\* a command line; term is the terminator written after it
Cmd(op) ==
    [op |-> op, f |-> 0, x |-> None, y |-> None, z |-> None, txt |-> <<>>, term |-> "\r"]

\* f"G1 F{f} X{x:.2f} Y{y:.2f} Z{z:.2f}"
G1xyz(f, x, y, z) ==
    [Cmd("G1") EXCEPT !.f = f, !.x = Some(Fmt2(x)), !.y = Some(Fmt2(y)), !.z = Some(Fmt2(z))]

\* f"G1 F{f} Z{z:.2f}"
G1z(f, z) == [Cmd("G1") EXCEPT !.f = f, !.z = Some(Fmt2(z))]

\* the encoder replay line, txt being the whole line
Replay(txt) == [Cmd("M894") EXCEPT !.txt = txt]

\* the tag of a command in flight: its name and its place in the trace
Tag(op, n) == [op |-> op, n |-> n]
NoTag == Tag("", 0)

\* what the firmware holds of a command it has received: the kind of answer
\* it calls for, and the command's tag
ReplyKind(op) == IF op \in {"M114", "M893"} THEN op ELSE "ok"
Received(op, n) == [kind |-> ReplyKind(op), of |-> Tag(op, n)]

\* a received line: its text and the command it answers
Line(txt, of) == [txt |-> txt, of |-> of]

VARIABLES
    connected, positions, current_pos, is_running, pause_requested, stop_requested,
    pc,          \* the source line the worker executes next, "idle" when none
    op,          \* the operation the worker runs, or ran last
    i,           \* run_full_cycle: the loop variable
    num_hooks,   \* run_full_cycle: len(hooks) taken before the loop
    hook_index,  \* the argument of place_blade / go_to_hook
    k,           \* the step inside pick_blade / place_blade, or the poll attempt
    enc,         \* read_encoder_position: the value returned
    waiting,     \* send_command is in its while True loop
    gpc,         \* the front-end thread inside stop_cycle
    wire,        \* the commands written during the current operation
    pending,     \* commands the firmware has received and not answered
    inbuf,       \* lines in the serial input buffer
    progress,    \* the calls of progress_callback
    acked,       \* history: tags of the ok lines send_command returned on
    started,     \* history: the hook indices whose pair the cycle began
    interrupted, \* history: pause_cycle or stop_cycle was called in this run
    stopDuring,  \* history: the hook whose pair was running when stop was called
    stopInPause, \* history: the hook the cycle was paused before when stop was called
    cleanupAt,   \* history: Len(wire) when the loop of run_full_cycle was left
    file,        \* the persisted record (CONFIG_FILE): None when missing, or its text
    port_ok,     \* reads and writes on the open serial port succeed
    raised,      \* history: an exception left the operation and reached its caller
    stopCalled,  \* history: stop_cycle was called since this run was invoked
    mode,        \* the firmware's positioning mode: "abs" after G90, "rel" after G91
    gwaiting,    \* the front-end thread is in the while True loop of send_command
    gk,          \* the front-end thread's poll attempt in read_encoder_position
    genc,        \* the front-end thread's read_encoder_position: the value returned
    queued       \* the test thread's root.after(0, get_position_from_encoder) is due

progVars == <<connected, positions, current_pos, is_running, pause_requested, stop_requested>>
workVars == <<pc, op, i, num_hooks, hook_index, k, enc, waiting>>
ioVars == <<wire, pending, inbuf>>
histVars == <<progress, acked, started, interrupted, stopCalled, stopDuring, stopInPause,
              cleanupAt>>
envVars == <<file, port_ok, raised>>
guiVars == <<mode, gwaiting, gk, genc, queued>>
vars == <<progVars, workVars, gpc, ioVars, histVars, envVars, guiVars>>

Init ==
    /\ connected = FALSE
    /\ positions \in LoadedPositions
    /\ current_pos = HomePos
    /\ is_running = FALSE
    /\ pause_requested = FALSE
    /\ stop_requested = FALSE
    /\ pc = "idle"
    /\ op = "none"
    /\ i = 0
    /\ num_hooks = 0
    /\ hook_index = 0
    /\ k = 0
    /\ enc = None
    /\ waiting = FALSE
    /\ gpc = "idle"
    /\ wire = <<>>
    /\ pending = <<>>
    /\ inbuf = <<>>
    /\ progress = <<>>
    /\ acked = {}
    /\ started = <<>>
    /\ interrupted = FALSE
    /\ stopDuring = None
    /\ stopInPause = None
    /\ cleanupAt = None
    /\ file = StoredAs(positions)
    /\ port_ok = TRUE
    /\ raised = FALSE
    /\ stopCalled = FALSE
    /\ mode = "abs"
    /\ gwaiting = FALSE
    /\ gk = 0
    /\ genc = None
    /\ queued = FALSE

(***************************************************************************)
(* Transport and firmware.                                                 *)
(***************************************************************************)
\* connect(port): a new port handle, with nothing buffered
Connect ==
    /\ pc = "idle" /\ gpc = "idle"
    /\ \E opened \in BOOLEAN :
        /\ connected' = opened
        /\ IF opened THEN pending' = <<>> /\ inbuf' = <<>> ELSE UNCHANGED <<pending, inbuf>>
        /\ port_ok' = (opened \/ port_ok)
    /\ op' = "connect"
    /\ UNCHANGED <<positions, current_pos, is_running, pause_requested, stop_requested,
                   pc, i, num_hooks, hook_index, k, enc, waiting, gpc, wire, histVars>>
    /\ UNCHANGED <<file, raised, guiVars>>

\* disconnect()
Disconnect ==
    /\ pc = "idle" /\ gpc = "idle"
    /\ connected
    /\ connected' = FALSE
    /\ pending' = <<>>
    /\ inbuf' = <<>>
    /\ op' = "disconnect"
    /\ port_ok' = TRUE
    /\ UNCHANGED <<positions, current_pos, is_running, pause_requested, stop_requested,
                   pc, i, num_hooks, hook_index, k, enc, waiting, gpc, wire, histVars>>
    /\ UNCHANGED <<file, raised, guiVars>>

\* send_command, up to the write: nothing is written when not connected, and
\* a write that raises makes it return "Error: ..." at once (lines 76-77)
SendCommand(c) ==
    IF connected /\ port_ok
    THEN /\ wire' = Append(wire, c)
         /\ pending' = Append(pending, Received(c.op, Len(wire) + 1))
         /\ waiting' = TRUE
    ELSE UNCHANGED <<wire, pending, waiting>>

\* 'ok' in response, without the lower()
HasOk_case_sensitive(txt) == Contains(Strip(txt), S_ok)

\* 'ok' in response.lower()
HasOk(txt) == Contains(Lower(Strip(txt)), S_ok)

\* send_command, one turn of its while True loop with a line read
ReadOk ==
    /\ waiting
    /\ port_ok
    /\ inbuf # <<>>
    /\ inbuf' = Tail(inbuf)
    /\ IF HasOk(Head(inbuf).txt)
       THEN waiting' = FALSE /\ acked' = acked \cup {Head(inbuf).of}
       ELSE UNCHANGED <<waiting, acked>>
    /\ UNCHANGED <<progVars, pc, op, i, num_hooks, hook_index, k, enc, gpc, wire, pending,
                   progress, started, interrupted, stopCalled, stopDuring, stopInPause, cleanupAt>>
    /\ UNCHANGED <<file, port_ok, guiVars, raised>>

\* the firmware's answers to a command: M114 reports the position before its
\* ok, M893 reports the encoders (the line, its ok before or after it) or
\* nothing but ok, every other command is acknowledged with ok
Replies(r) ==
    CASE r.kind = "M114" -> { <<Line(PosLine, NoTag), Line(S_ok, r.of)>> }
      [] r.kind = "M893" -> { <<Line(e, NoTag), Line(S_ok, r.of)>> : e \in {EncFull, EncBare} }
                            \cup { <<Line(S_ok, r.of), Line(EncFull, NoTag)>>,
                                   <<Line(S_ok, r.of)>> }
      [] OTHER -> { <<Line(S_ok, r.of)>> }

PeerReply ==
    /\ pending # <<>>
    /\ \E r \in Replies(Head(pending)) : inbuf' = inbuf \o r
    /\ pending' = Tail(pending)
    /\ UNCHANGED <<progVars, workVars, gpc, wire, histVars>>
    /\ UNCHANGED <<file, port_ok, guiVars, raised>>

(***************************************************************************)
(* The front end's cycle controls, on its own thread.                      *)
(***************************************************************************)
InCycle == op = "run_full_cycle" /\ pc # "idle"

\* the front end enables its pause and stop buttons in start_cycle and
\* disables them in cycle_done (blade_loader_gui.py, lines 365-367, 380-382)
ControlsFree == gpc = "idle" /\ InCycle

pause_cycle ==
    /\ ControlsFree
    /\ pause_requested' = TRUE
    /\ interrupted' = (interrupted \/ InCycle)
    /\ stopCalled' = stopCalled
    /\ UNCHANGED <<connected, positions, current_pos, is_running, stop_requested, workVars,
                   gpc, ioVars, progress, acked, started, stopDuring, stopInPause, cleanupAt>>
    /\ UNCHANGED <<file, port_ok, guiVars, raised>>

resume_cycle ==
    /\ ControlsFree
    /\ pause_requested' = FALSE
    /\ UNCHANGED <<connected, positions, current_pos, is_running, stop_requested, workVars,
                   gpc, ioVars, histVars>>
    /\ UNCHANGED <<file, port_ok, guiVars, raised>>

\* stop_cycle, line 495: stop_requested = True
stop_cycle ==
    /\ ControlsFree
    /\ stop_requested' = TRUE
    /\ gpc' = "stop496"
    /\ interrupted' = (interrupted \/ InCycle)
    /\ stopCalled' = TRUE
    /\ stopDuring' = IF InCycle /\ pc \in {"pick", "place", "rfc455", "rfc458"}
                     THEN Some(i) ELSE stopDuring
    /\ stopInPause' = IF InCycle /\ pc \in {"rfc444", "rfc445"} /\ pause_requested
                      THEN Some(i) ELSE stopInPause
    /\ UNCHANGED <<connected, positions, current_pos, is_running, pause_requested, workVars,
                   ioVars, progress, acked, started, cleanupAt>>
    /\ UNCHANGED <<file, port_ok, guiVars, raised>>

\* stop_cycle, line 496: pause_requested = False
stop_cycle_496 ==
    /\ gpc = "stop496"
    /\ pause_requested' = FALSE
    /\ gpc' = "idle"
    /\ UNCHANGED <<connected, positions, current_pos, is_running, stop_requested, workVars,
                   ioVars, histVars>>
    /\ UNCHANGED <<file, port_ok, guiVars, raised>>

(***************************************************************************)
(* pick_blade and place_blade.                                             *)
(***************************************************************************)
\* the worker is at line l and not blocked inside send_command
At(l) == pc = l /\ ~waiting

\* pick_blade with the suction started only after the arm is down
PickCmds_suction_late(pick, safe_z, f) ==
    << G1xyz(f, pick.x, pick.y, safe_z), Cmd("M400"),
       G1z(f, pick.z), Cmd("M400"),
       Cmd("M1000"),
       G1z(f, safe_z), Cmd("M400") >>

\* pick_blade replaying the encoder token of the pick point when it has one
PickCmds_replay(pick, safe_z, f) ==
    << IF Truthy(pick.encoder) THEN [Cmd("M894") EXCEPT !.txt = pick.encoder[1]]
       ELSE G1xyz(f, pick.x, pick.y, safe_z),
       Cmd("M400"),
       Cmd("M1000"),
       G1z(f, pick.z), Cmd("M400"),
       G1z(f, safe_z), Cmd("M400") >>

\* the commands of pick_blade, lines 358-380
PickCmds(pick, safe_z, f) ==
    << G1xyz(f, pick.x, pick.y, safe_z), Cmd("M400"),
       Cmd("M1000"),
       G1z(f, pick.z), Cmd("M400"),
       G1z(f, safe_z), Cmd("M400") >>

\* the commands of place_blade, lines 399-423
PlaceCmds(hook, safe_z, f) ==
    << G1xyz(f, hook.x, hook.y, safe_z), Cmd("M400"),
       G1z(f, hook.z), Cmd("M400"),
       Cmd("M1002"),
       Cmd("M1003"),
       G1z(f, safe_z), Cmd("M400") >>

\* the hook place_blade reads: hooks[hook_index], a negative index counting
\* from the end of the list as Python's does
HookAt(n) == positions.hooks[IF n < 0 THEN Len(positions.hooks) + n + 1 ELSE n + 1]

\* hooks[n] raises IndexError
NoHookAt(n) == n >= Len(positions.hooks) \/ n < 0 - Len(positions.hooks)

\* pick_blade, lines 345-347: no pick taught, return False
pick_blade ==
    /\ At("pb345")
    /\ IF positions.pick = None
       THEN /\ pc' = IF op = "run_full_cycle" THEN "rfc461" ELSE "tsh477"
            /\ cleanupAt' = IF op = "run_full_cycle" THEN Some(Len(wire)) ELSE cleanupAt
            /\ k' = k
       ELSE /\ pc' = "pick"
            /\ k' = 1
            /\ cleanupAt' = cleanupAt
    /\ UNCHANGED <<progVars, op, i, num_hooks, hook_index, enc, waiting, gpc, ioVars,
                   progress, acked, started, interrupted, stopCalled, stopDuring, stopInPause>>
    /\ UNCHANGED <<file, port_ok, guiVars, raised>>

\* pick_blade, the k-th of its send_command calls
pick_blade_send ==
    /\ At("pick")
    /\ k <= Len(PickCmds(positions.pick[1], positions.safe_z, Feedrate))
    /\ SendCommand(PickCmds(positions.pick[1], positions.safe_z, Feedrate)[k])
    /\ k' = k + 1
    /\ UNCHANGED <<progVars, pc, op, i, num_hooks, hook_index, enc, gpc, inbuf, histVars>>
    /\ UNCHANGED <<file, port_ok, guiVars, raised>>

\* pick_blade, line 382: return True
pick_blade_return ==
    /\ At("pick")
    /\ k > Len(PickCmds(positions.pick[1], positions.safe_z, Feedrate))
    /\ pc' = IF op = "run_full_cycle" THEN "rfc455" ELSE "tsh477"
    /\ UNCHANGED <<progVars, op, i, num_hooks, hook_index, k, enc, waiting, gpc, ioVars,
                   histVars>>
    /\ UNCHANGED <<file, port_ok, guiVars, raised>>

\* place_blade, lines 386-389: hook_index >= len(hooks), return False; the
\* IndexError of hooks[hook_index] at line 389 is caught nowhere and ends the
\* operation
place_blade ==
    /\ At("pl386")
    /\ IF hook_index >= Len(positions.hooks)
       THEN /\ pc' = IF op = "run_full_cycle" THEN "rfc461" ELSE "tsh479"
            /\ cleanupAt' = IF op = "run_full_cycle" THEN Some(Len(wire)) ELSE cleanupAt
            /\ k' = k
            /\ raised' = raised
       ELSE IF NoHookAt(hook_index)
       THEN /\ pc' = "idle"
            /\ raised' = TRUE
            /\ UNCHANGED <<k, cleanupAt>>
       ELSE /\ pc' = "place"
            /\ k' = 1
            /\ cleanupAt' = cleanupAt
            /\ raised' = raised
    /\ UNCHANGED <<progVars, op, i, num_hooks, hook_index, enc, waiting, gpc, ioVars,
                   progress, acked, started, interrupted, stopCalled, stopDuring, stopInPause>>
    /\ UNCHANGED <<file, port_ok, guiVars>>

\* place_blade, the k-th of its send_command calls
place_blade_send ==
    /\ At("place")
    /\ k <= Len(PlaceCmds(HookAt(hook_index), positions.safe_z, Feedrate))
    /\ SendCommand(PlaceCmds(HookAt(hook_index), positions.safe_z, Feedrate)[k])
    /\ k' = k + 1
    /\ UNCHANGED <<progVars, pc, op, i, num_hooks, hook_index, enc, gpc, inbuf, histVars>>
    /\ UNCHANGED <<file, port_ok, guiVars, raised>>

\* place_blade, line 425: return True
place_blade_return ==
    /\ At("place")
    /\ k > Len(PlaceCmds(HookAt(hook_index), positions.safe_z, Feedrate))
    /\ pc' = IF op = "run_full_cycle" THEN "rfc458" ELSE "tsh479"
    /\ UNCHANGED <<progVars, op, i, num_hooks, hook_index, k, enc, waiting, gpc, ioVars,
                   histVars>>
    /\ UNCHANGED <<file, port_ok, guiVars, raised>>

(***************************************************************************)
(* run_full_cycle.                                                         *)
(***************************************************************************)
\* a new operation begins: its trace and its history start empty.  The front
\* end calls it once the firmware has answered what it received before; what
\* the last operation left unread in the input buffer stays there.
Begin(name, line) ==
    /\ pc = "idle" /\ gpc = "idle"
    /\ pending = <<>>
    /\ op' = name
    /\ pc' = line
    /\ wire' = <<>>
    /\ progress' = <<>>
    /\ acked' = {}
    /\ started' = <<>>
    /\ interrupted' = FALSE
    /\ stopCalled' = FALSE
    /\ stopDuring' = None
    /\ stopInPause' = None
    /\ cleanupAt' = None
    /\ i' = 0
    /\ num_hooks' = 0
    /\ k' = 0
    /\ enc' = None
    /\ pending' = pending
    /\ inbuf' = [j \in 1..Len(inbuf) |-> [inbuf[j] EXCEPT !.of = NoTag]]
    /\ raised' = FALSE
    /\ UNCHANGED <<progVars, waiting, gpc, file, port_ok, guiVars>>

\* the front end starts run_full_cycle on a worker thread
run_full_cycle ==
    /\ Begin("run_full_cycle", "rfc429")
    /\ hook_index' = 0

\* line 429: self.is_running = True
rfc429 ==
    /\ At("rfc429")
    /\ is_running' = TRUE
    /\ pc' = "rfc430"
    /\ UNCHANGED <<connected, positions, current_pos, pause_requested, stop_requested,
                   op, i, num_hooks, hook_index, k, enc, waiting, gpc, ioVars, histVars>>
    /\ UNCHANGED <<file, port_ok, guiVars, raised>>

\* line 430: self.stop_requested = False
rfc430 ==
    /\ At("rfc430")
    /\ stop_requested' = FALSE
    /\ pc' = "rfc431"
    /\ UNCHANGED <<connected, positions, current_pos, is_running, pause_requested,
                   op, i, num_hooks, hook_index, k, enc, waiting, gpc, ioVars, histVars>>
    /\ UNCHANGED <<file, port_ok, guiVars, raised>>

\* line 431: self.pause_requested = False
rfc431 ==
    /\ At("rfc431")
    /\ pause_requested' = FALSE
    /\ pc' = "rfc434"
    /\ UNCHANGED <<connected, positions, current_pos, is_running, stop_requested,
                   op, i, num_hooks, hook_index, k, enc, waiting, gpc, ioVars, histVars>>
    /\ UNCHANGED <<file, port_ok, guiVars, raised>>

\* line 434: self.send_command("M2000")
rfc434 ==
    /\ At("rfc434")
    /\ SendCommand(Cmd("M2000"))
    /\ pc' = "rfc436"
    /\ UNCHANGED <<progVars, op, i, num_hooks, hook_index, k, enc, gpc, inbuf, histVars>>
    /\ UNCHANGED <<file, port_ok, guiVars, raised>>

\* line 436: num_hooks = len(self.positions['hooks']), and the loop starts at 0
rfc436 ==
    /\ At("rfc436")
    /\ num_hooks' = Len(positions.hooks)
    /\ i' = 0
    /\ pc' = "rfc438"
    /\ UNCHANGED <<progVars, op, hook_index, k, enc, waiting, gpc, ioVars, histVars>>
    /\ UNCHANGED <<file, port_ok, guiVars, raised>>

\* line 438: for i in range(num_hooks)
rfc438 ==
    /\ At("rfc438")
    /\ IF i < num_hooks
       THEN pc' = "rfc439" /\ cleanupAt' = cleanupAt
       ELSE pc' = "rfc461" /\ cleanupAt' = Some(Len(wire))
    /\ UNCHANGED <<progVars, op, i, num_hooks, hook_index, k, enc, waiting, gpc, ioVars,
                   progress, acked, started, interrupted, stopCalled, stopDuring, stopInPause>>
    /\ UNCHANGED <<file, port_ok, guiVars, raised>>

\* the loop without its stop check
rfc439_no_break ==
    /\ pc = "rfc439" /\ ~waiting
    /\ pc' = "rfc444"
    /\ UNCHANGED <<progVars, op, i, num_hooks, hook_index, k, enc, waiting, gpc, wire, pending,
                   inbuf, histVars>>
    /\ UNCHANGED <<file, port_ok, guiVars, raised>>

\* lines 439-442: if self.stop_requested: break
rfc439 ==
    /\ At("rfc439")
    /\ IF stop_requested
       THEN pc' = "rfc461" /\ cleanupAt' = Some(Len(wire))
       ELSE pc' = "rfc444" /\ cleanupAt' = cleanupAt
    /\ UNCHANGED <<progVars, op, i, num_hooks, hook_index, k, enc, waiting, gpc, ioVars,
                   progress, acked, started, interrupted, stopCalled, stopDuring, stopInPause>>
    /\ UNCHANGED <<file, port_ok, guiVars, raised>>

\* the loop without its pause wait
rfc444_no_pause ==
    /\ pc = "rfc444" /\ ~waiting
    /\ pc' = "rfc452"
    /\ UNCHANGED <<progVars, op, i, num_hooks, hook_index, k, enc, waiting, gpc, wire, pending,
                   inbuf, histVars>>
    /\ UNCHANGED <<file, port_ok, guiVars, raised>>

\* line 444: while self.pause_requested
rfc444 ==
    /\ At("rfc444")
    /\ pc' = IF pause_requested THEN "rfc445" ELSE "rfc452"
    /\ UNCHANGED <<progVars, op, i, num_hooks, hook_index, k, enc, waiting, gpc, ioVars,
                   histVars>>
    /\ UNCHANGED <<file, port_ok, guiVars, raised>>

\* lines 445-447: time.sleep(0.1); if self.stop_requested: break.  The break
\* leaves the while loop only: the body of the for loop goes on at line 449.
rfc445 ==
    /\ At("rfc445")
    /\ pc' = IF stop_requested THEN "rfc452" ELSE "rfc444"
    /\ UNCHANGED <<progVars, op, i, num_hooks, hook_index, k, enc, waiting, gpc, ioVars,
                   histVars>>
    /\ UNCHANGED <<file, port_ok, guiVars, raised>>

\* line 452: self.pick_blade(status_callback)
rfc452 ==
    /\ At("rfc452")
    /\ started' = Append(started, i)
    /\ pc' = "pb345"
    /\ UNCHANGED <<progVars, op, i, num_hooks, hook_index, k, enc, waiting, gpc, ioVars,
                   progress, acked, interrupted, stopCalled, stopDuring, stopInPause, cleanupAt>>
    /\ UNCHANGED <<file, port_ok, guiVars, raised>>

\* line 455: self.place_blade(i, status_callback)
rfc455 ==
    /\ At("rfc455")
    /\ hook_index' = i
    /\ pc' = "pl386"
    /\ UNCHANGED <<progVars, op, i, num_hooks, k, enc, waiting, gpc, ioVars, histVars>>
    /\ UNCHANGED <<file, port_ok, guiVars, raised>>

\* the progress callback given i instead of i + 1
rfc458_count_from_zero ==
    /\ pc = "rfc458" /\ ~waiting
    /\ progress' = Append(progress, [done |-> i, total |-> num_hooks, at |-> Len(wire)])
    /\ i' = i + 1
    /\ pc' = "rfc438"
    /\ UNCHANGED <<progVars, op, num_hooks, hook_index, k, enc, waiting, gpc, wire, pending,
                   inbuf, acked, started, interrupted, stopCalled, stopDuring, stopInPause, cleanupAt>>
    /\ UNCHANGED <<file, port_ok, guiVars, raised>>

\* lines 458-459: progress_callback(i + 1, num_hooks), then the next i
rfc458 ==
    /\ At("rfc458")
    /\ progress' = Append(progress, [done |-> i + 1, total |-> num_hooks, at |-> Len(wire)])
    /\ i' = i + 1
    /\ pc' = "rfc438"
    /\ UNCHANGED <<progVars, op, num_hooks, hook_index, k, enc, waiting, gpc, ioVars,
                   acked, started, interrupted, stopCalled, stopDuring, stopInPause, cleanupAt>>
    /\ UNCHANGED <<file, port_ok, guiVars, raised>>

\* line 461: self.suction_off()
rfc461 ==
    /\ At("rfc461")
    /\ SendCommand(Cmd("M1003"))
    /\ pc' = "rfc462"
    /\ UNCHANGED <<progVars, op, i, num_hooks, hook_index, k, enc, gpc, inbuf, histVars>>
    /\ UNCHANGED <<file, port_ok, guiVars, raised>>

\* the cleanup without the home command
rfc462_no_home ==
    /\ pc = "rfc462" /\ ~waiting
    /\ pc' = "gh83"
    /\ UNCHANGED <<progVars, op, i, num_hooks, hook_index, k, enc, waiting, gpc, wire, pending,
                   inbuf, histVars>>
    /\ UNCHANGED <<file, port_ok, guiVars, raised>>

\* line 462: self.go_home(), its send_command("M1112")
rfc462 ==
    /\ At("rfc462")
    /\ SendCommand(Cmd("M1112"))
    /\ pc' = "gh83"
    /\ UNCHANGED <<progVars, op, i, num_hooks, hook_index, k, enc, gpc, inbuf, histVars>>
    /\ UNCHANGED <<file, port_ok, guiVars, raised>>

\* go_home, line 83: self.current_pos = {'x': 0, 'y': 300, 'z': 0}
gh83 ==
    /\ At("gh83")
    /\ current_pos' = HomePos
    /\ pc' = "rfc463"
    /\ UNCHANGED <<connected, positions, is_running, pause_requested, stop_requested,
                   op, i, num_hooks, hook_index, k, enc, waiting, gpc, ioVars, histVars>>
    /\ UNCHANGED <<file, port_ok, guiVars, raised>>

\* the run returning without clearing is_running
rfc463_keeps_running ==
    /\ pc = "rfc463" /\ ~waiting
    /\ pc' = "idle"
    /\ UNCHANGED <<progVars, op, i, num_hooks, hook_index, k, enc, waiting, gpc, wire, pending,
                   inbuf, histVars>>
    /\ UNCHANGED <<file, port_ok, guiVars, raised>>

\* line 463: self.is_running = False, and the operation returns
rfc463 ==
    /\ At("rfc463")
    /\ is_running' = FALSE
    /\ pc' = "idle"
    /\ UNCHANGED <<connected, positions, current_pos, pause_requested, stop_requested,
                   op, i, num_hooks, hook_index, k, enc, waiting, gpc, ioVars, histVars>>
    /\ UNCHANGED <<file, port_ok, guiVars, raised>>

(***************************************************************************)
(* test_single_hook.                                                       *)
(***************************************************************************)
\* the front end starts test_single_hook(n) on a worker thread
test_single_hook ==
    /\ Begin("test_single_hook", "tsh470")
    /\ \E n \in (0 - 1)..MaxHooks : hook_index' = n

\* line 470: self.is_running = True
tsh470 ==
    /\ At("tsh470")
    /\ is_running' = TRUE
    /\ pc' = "tsh471"
    /\ UNCHANGED <<connected, positions, current_pos, pause_requested, stop_requested,
                   op, i, num_hooks, hook_index, k, enc, waiting, gpc, ioVars, histVars>>
    /\ UNCHANGED <<file, port_ok, guiVars, raised>>

\* line 471: self.stop_requested = False; line 476: self.pick_blade(...)
tsh471 ==
    /\ At("tsh471")
    /\ stop_requested' = FALSE
    /\ pc' = "pb345"
    /\ UNCHANGED <<connected, positions, current_pos, is_running, pause_requested,
                   op, i, num_hooks, hook_index, k, enc, waiting, gpc, ioVars, histVars>>
    /\ UNCHANGED <<file, port_ok, guiVars, raised>>

\* line 477: self.place_blade(hook_index, status_callback), whatever pick_blade
\* returned
tsh477 ==
    /\ At("tsh477")
    /\ pc' = "pl386"
    /\ UNCHANGED <<progVars, op, i, num_hooks, hook_index, k, enc, waiting, gpc, ioVars,
                   histVars>>
    /\ UNCHANGED <<file, port_ok, guiVars, raised>>

\* line 479: self.suction_off()
tsh479 ==
    /\ At("tsh479")
    /\ SendCommand(Cmd("M1003"))
    /\ pc' = "tsh480"
    /\ UNCHANGED <<progVars, op, i, num_hooks, hook_index, k, enc, gpc, inbuf, histVars>>
    /\ UNCHANGED <<file, port_ok, guiVars, raised>>

\* line 480: self.is_running = False, and the operation returns
tsh480 ==
    /\ At("tsh480")
    /\ is_running' = FALSE
    /\ pc' = "idle"
    /\ UNCHANGED <<connected, positions, current_pos, pause_requested, stop_requested,
                   op, i, num_hooks, hook_index, k, enc, waiting, gpc, ioVars, histVars>>
    /\ UNCHANGED <<file, port_ok, guiVars, raised>>

(***************************************************************************)
(* get_position, read_encoder_position, get_position_from_encoder.         *)
(***************************************************************************)
\* get_position, lines 130-133: the three values of "X:.. Y:.. Z:.. ...", or
\* None when any step of the parse raises
ParsePosition(line) ==
    LET parts == Split(Strip(line))
        field(n) == SplitOn(parts[n], ":")
    IN  IF /\ Len(parts) >= 3
           /\ \A n \in 1..3 : Len(field(n)) >= 2 /\ IsFloat(field(n)[2])
        THEN Some([x |-> FloatVal(field(1)[2]), y |-> FloatVal(field(2)[2]),
                   z |-> FloatVal(field(3)[2])])
        ELSE None

\* where the caller of get_position goes on: set_pick and add_hook at their
\* read_encoder_position, set_safe_z at line 269; for every other caller the
\* operation is over
AfterGetPosition ==
    CASE op \in {"set_pick", "add_hook"} -> "rep154"
      [] op = "set_safe_z" -> "ssz269"
      [] OTHER -> "idle"

\* where the caller of read_encoder_position goes on
AfterReadEncoder ==
    CASE op = "set_pick" -> "sp258"
      [] op = "add_hook" -> "ah278"
      [] OTHER -> "gpe180"

\* get_position, line 126: self.send_command("M114")
gp126 ==
    /\ At("gp126")
    /\ SendCommand(Cmd("M114"))
    /\ pc' = "gp128"
    /\ UNCHANGED <<progVars, op, i, num_hooks, hook_index, k, enc, gpc, inbuf, histVars>>
    /\ UNCHANGED <<file, port_ok, guiVars, raised>>

\* get_position, lines 127-137: one readline (empty after the port's timeout,
\* raising when there is no open port), then the parse; current_pos is left
\* alone when anything raises
gp128 ==
    /\ At("gp128")
    /\ LET got == connected /\ port_ok /\ inbuf # <<>>
           line == IF got THEN Head(inbuf).txt ELSE <<>>
           parsed == ParsePosition(line)
       IN  /\ inbuf' = IF got THEN Tail(inbuf) ELSE inbuf
           /\ current_pos' = IF parsed # None THEN parsed[1] ELSE current_pos
    /\ pc' = AfterGetPosition
    /\ UNCHANGED <<connected, positions, is_running, pause_requested, stop_requested,
                   op, i, num_hooks, hook_index, k, enc, waiting, gpc, wire, pending, histVars>>
    /\ UNCHANGED <<file, port_ok, guiVars, raised>>

\* read_encoder_position, line 168: the lines it returns
EncFilter(txt) ==
    \/ Contains(txt, S_M894)
    \/ (Contains(txt, <<"X">>) /\ Contains(txt, <<"Y">>) /\ Contains(txt, <<"Z">>))

\* the front end calls get_position_from_encoder, which it does on a
\* connected controller only
get_position_from_encoder ==
    /\ connected
    /\ Begin("get_position_from_encoder", "rep154")
    /\ hook_index' = 0

\* read_encoder_position, lines 154-155: while in_waiting: readline().  The
\* loop is outside any try: an exception of the port leaves the operation.
rep154 ==
    /\ At("rep154")
    /\ IF ~port_ok
       THEN inbuf' = inbuf /\ pc' = "idle" /\ raised' = TRUE
       ELSE IF inbuf # <<>>
       THEN inbuf' = Tail(inbuf) /\ pc' = pc /\ raised' = raised
       ELSE inbuf' = inbuf /\ pc' = "rep159" /\ raised' = raised
    /\ UNCHANGED <<progVars, op, i, num_hooks, hook_index, k, enc, waiting, gpc, wire,
                   pending, histVars>>
    /\ UNCHANGED <<file, port_ok, guiVars>>

\* read_encoder_position, line 159: self.serial.write(b"M893\n"), outside
\* any try as well
rep159 ==
    /\ At("rep159")
    /\ IF ~port_ok
       THEN /\ pc' = "idle" /\ raised' = TRUE
            /\ UNCHANGED <<wire, pending, k>>
       ELSE /\ wire' = Append(wire, [Cmd("M893") EXCEPT !.term = "\n"])
            /\ pending' = Append(pending, Received("M893", Len(wire) + 1))
            /\ k' = 0
            /\ pc' = "rep163"
            /\ raised' = raised
    /\ UNCHANGED <<progVars, op, i, num_hooks, hook_index, enc, waiting, gpc, inbuf, histVars>>
    /\ UNCHANGED <<file, port_ok, guiVars>>

\* read_encoder_position, lines 163-174: one of the 20 attempts, or the
\* return None after the last; an exception inside the try is passed over
rep163 ==
    /\ At("rep163")
    /\ IF k >= EncAttempts
       THEN /\ enc' = None
            /\ pc' = AfterReadEncoder
            /\ UNCHANGED <<k, inbuf>>
       ELSE IF ~port_ok \/ inbuf = <<>>
       THEN /\ k' = k + 1
            /\ UNCHANGED <<enc, pc, inbuf>>
       ELSE /\ inbuf' = Tail(inbuf)
            /\ IF EncFilter(Strip(Head(inbuf).txt))
               THEN enc' = Some(Strip(Head(inbuf).txt)) /\ pc' = AfterReadEncoder /\ k' = k
               ELSE enc' = enc /\ pc' = pc /\ k' = k + 1
    /\ UNCHANGED <<progVars, op, i, num_hooks, hook_index, waiting, gpc, wire, pending,
                   histVars>>
    /\ UNCHANGED <<file, port_ok, guiVars, raised>>

\* part[1:] of a part that starts with an axis letter
AxisArg(part) == SubSeq(part, 2, Len(part))

\* the loop of lines 186-192 left after its first part
ParseEncoderParts_first_only(parts, pos) ==
    IF parts = <<>> THEN pos
    ELSE LET part == Head(parts)
             axis == IF StartsWith(part, <<"X">>) THEN "x"
                     ELSE IF StartsWith(part, <<"Y">>) THEN "y"
                     ELSE IF StartsWith(part, <<"Z">>) THEN "z"
                     ELSE ""
         IN  IF axis = "" \/ ~IsFloat(AxisArg(part)) THEN pos
             ELSE [pos EXCEPT ![axis] = FloatVal(AxisArg(part))]

\* get_position_from_encoder, lines 186-192: the parts in order, each axis
\* part assigning its axis; a float() that raises ends the loop
RECURSIVE ParseEncoderParts(_, _)
ParseEncoderParts(parts, pos) ==
    IF parts = <<>> THEN pos
    ELSE LET part == Head(parts)
             axis == IF StartsWith(part, <<"X">>) THEN "x"
                     ELSE IF StartsWith(part, <<"Y">>) THEN "y"
                     ELSE IF StartsWith(part, <<"Z">>) THEN "z"
                     ELSE ""
         IN  IF axis = "" THEN ParseEncoderParts(Tail(parts), pos)
             ELSE IF ~IsFloat(AxisArg(part)) THEN pos
             ELSE ParseEncoderParts(Tail(parts),
                                    [pos EXCEPT ![axis] = FloatVal(AxisArg(part))])

\* get_position_from_encoder, lines 180-196
gpe180 ==
    /\ At("gpe180")
    /\ current_pos' = IF Truthy(enc)
                      THEN ParseEncoderParts(Split(Strip(Remove(enc[1], S_M894))), current_pos)
                      ELSE current_pos
    /\ pc' = "idle"
    /\ UNCHANGED <<connected, positions, is_running, pause_requested, stop_requested,
                   op, i, num_hooks, hook_index, k, enc, waiting, gpc, ioVars, histVars>>
    /\ UNCHANGED <<file, port_ok, guiVars, raised>>

(***************************************************************************)
(* go_to_pick, go_to_hook, move_to, move_to_encoder_position.              *)
(***************************************************************************)
\* the Position go_to_pick / go_to_hook move to
Target == IF op = "go_to_pick" THEN positions.pick[1] ELSE HookAt(hook_index)

\* move_to_encoder_position, line 200: the strings it replays
CanReplay(s) == s # <<>> /\ (Contains(s, <<"X">>) \/ StartsWith(s, S_M894))

\* move_to_encoder_position, lines 202-204: the line it sends
ReplayText(s) ==
    LET j == Join(Split(s))
    IN  IF StartsWith(j, S_M894) THEN j ELSE S_M894 \o <<" ">> \o j

\* the front end calls go_to_pick
go_to_pick ==
    /\ Begin("go_to_pick", "gtp300")
    /\ hook_index' = 0

\* go_to_pick, lines 300-305
gtp300 ==
    /\ At("gtp300")
    /\ pc' = IF positions.pick = None THEN "idle"
             ELSE IF Truthy(positions.pick[1].encoder) THEN "mte200" ELSE "mv102"
    /\ UNCHANGED <<progVars, op, i, num_hooks, hook_index, k, enc, waiting, gpc, ioVars,
                   histVars>>
    /\ UNCHANGED <<file, port_ok, guiVars, raised>>

\* the front end calls go_to_hook(n)
go_to_hook ==
    /\ Begin("go_to_hook", "gth309")
    /\ \E n \in 0..MaxHooks : hook_index' = n

\* go_to_hook without the encoder branch
gth309_cartesian ==
    /\ pc = "gth309" /\ ~waiting
    /\ pc' = IF ~(hook_index < Len(positions.hooks)) THEN "idle" ELSE "mv102"
    /\ UNCHANGED <<progVars, op, i, num_hooks, hook_index, k, enc, waiting, gpc, wire, pending,
                   inbuf, histVars>>
    /\ UNCHANGED <<file, port_ok, guiVars, raised>>

\* go_to_hook, lines 309-314
gth309 ==
    /\ At("gth309")
    /\ pc' = IF ~(hook_index < Len(positions.hooks)) THEN "idle"
             ELSE IF Truthy(HookAt(hook_index).encoder) THEN "mte200" ELSE "mv102"
    /\ UNCHANGED <<progVars, op, i, num_hooks, hook_index, k, enc, waiting, gpc, ioVars,
                   histVars>>
    /\ UNCHANGED <<file, port_ok, guiVars, raised>>

\* move_to, lines 101-102: the G1 with all three axes
mv102 ==
    /\ At("mv102")
    /\ SendCommand(G1xyz(Feedrate, Target.x, Target.y, Target.z))
    /\ pc' = "mv103"
    /\ UNCHANGED <<progVars, op, i, num_hooks, hook_index, k, enc, gpc, inbuf, histVars>>
    /\ UNCHANGED <<file, port_ok, guiVars, raised>>

\* move_to, line 103: self.current_pos = {'x': x, 'y': y, 'z': z}
mv103 ==
    /\ At("mv103")
    /\ current_pos' = [x |-> Target.x, y |-> Target.y, z |-> Target.z]
    /\ pc' = "idle"
    /\ UNCHANGED <<connected, positions, is_running, pause_requested, stop_requested,
                   op, i, num_hooks, hook_index, k, enc, waiting, gpc, ioVars, histVars>>
    /\ UNCHANGED <<file, port_ok, guiVars, raised>>

\* move_to_encoder_position, lines 200-205: the replay line, or return False
mte200 ==
    /\ At("mte200")
    /\ IF CanReplay(Target.encoder[1])
       THEN /\ SendCommand(Replay(ReplayText(Target.encoder[1])))
            /\ pc' = "mte206"
       ELSE /\ pc' = "idle"
            /\ UNCHANGED <<wire, pending, waiting>>
    /\ UNCHANGED <<progVars, op, i, num_hooks, hook_index, k, enc, gpc, inbuf, histVars>>
    /\ UNCHANGED <<file, port_ok, guiVars, raised>>

\* move_to_encoder_position, line 206: self.send_command("M400"); line 209
\* calls get_position
mte206 ==
    /\ At("mte206")
    /\ SendCommand(Cmd("M400"))
    /\ pc' = "gp126"
    /\ UNCHANGED <<progVars, op, i, num_hooks, hook_index, k, enc, gpc, inbuf, histVars>>
    /\ UNCHANGED <<file, port_ok, guiVars, raised>>

(***************************************************************************)
(* The position queries against a firmware that answers in every shape     *)
(* the wire protocol allows, on a port that can fail.                      *)
(***************************************************************************)
S_OK == <<"O", "K">>
\* "X:1.00 Y:2.00": a position report cut short
PosShort == <<"X", ":", "1", ".", "0", "0", " ", "Y", ":", "2", ".", "0", "0">>
\* "M894X7 Y8 Z9": no white space between the prefix and the values
EncTight == <<"M", "8", "9", "4", "X", "7", " ", "Y", "8", " ", "Z", "9">>
\* "M894 X4 Z6" and "X4 Z6": two of the three axes, with and without prefix
EncXZ == <<"M", "8", "9", "4", " ", "X", "4", " ", "Z", "6">>
EncBareXZ == <<"X", "4", " ", "Z", "6">>
\* "X7 Yq Z9": the value of Y is no number
EncBadY == <<"X", "7", " ", "Y", "q", " ", "Z", "9">>

\* the firmware's answers: the position before or after the ok of M114, cut
\* short, or missing; the encoder line in each of its shapes, or missing; the
\* ok in either case, an empty line before it
AnyReplies(r) ==
    CASE r.kind = "M114" -> { <<Line(PosLine, NoTag), Line(S_ok, r.of)>>,
                              <<Line(S_ok, r.of), Line(PosLine, NoTag)>>,
                              <<Line(<<>>, NoTag), Line(S_OK, r.of), Line(PosShort, NoTag)>>,
                              <<Line(S_ok, r.of)>> }
      [] r.kind = "M893" -> { <<Line(e, NoTag), Line(S_ok, r.of)>> :
                                e \in {EncFull, EncBare, EncTight, EncXZ, EncBareXZ, EncBadY} }
                            \cup { <<Line(S_OK, r.of)>> }
      [] OTHER -> { <<Line(S_ok, r.of)>> }

PeerReplyAny ==
    /\ pending # <<>>
    /\ \E r \in AnyReplies(Head(pending)) : inbuf' = inbuf \o r
    /\ pending' = Tail(pending)
    /\ UNCHANGED <<progVars, workVars, gpc, wire, histVars, envVars, guiVars>>

\* the serial device goes away: from now on every read and write raises
PortFails ==
    /\ connected /\ port_ok
    /\ port_ok' = FALSE
    /\ UNCHANGED <<progVars, workVars, gpc, ioVars, histVars, file, raised, guiVars>>

\* send_command, lines 76-77: readline raises inside the while True loop and
\* "Error: ..." is returned
ReadFails ==
    /\ waiting
    /\ ~port_ok
    /\ waiting' = FALSE
    /\ UNCHANGED <<progVars, pc, op, i, num_hooks, hook_index, k, enc, gpc, ioVars,
                   histVars, envVars, guiVars>>

\* a caller of the controller calls get_position
get_position ==
    /\ Begin("get_position", "gp126")
    /\ hook_index' = 0

QueryInit == Init /\ positions = DefaultPositions

QueryNext ==
    \/ Connect \/ Disconnect \/ PortFails
    \/ ReadOk \/ ReadFails \/ PeerReplyAny
    \/ get_position \/ gp126 \/ gp128
    \/ get_position_from_encoder \/ rep154 \/ rep159 \/ rep163 \/ gpe180

QuerySpec == QueryInit /\ [][QueryNext]_vars

(***************************************************************************)
(* The taught-position store: construction on a persisted record, the      *)
(* teach operations, and save_positions after each of them.                *)
(***************************************************************************)
\* a JSON text cut short, which json.load rejects
TruncatedFile == << <<"{">>, JsonString(KeyText("pick")), <<":">> >>
\* the JSON text {}: it parses, and is no record with pick, safe_z and hooks
EmptyObjectFile == << <<"{">>, <<"}">> >>
\* an encoder token with a quote and a backslash in it
EncQuoted == <<"M", "8", "9", "4", " ", "\"", "X", "1", "\\">>
\* a record taught in an earlier session
TaughtBefore ==
    [pick |-> Some(Position(10004, 20000, 5000, Some(EncQuoted))), safe_z |-> 50000,
     hooks |-> <<Position(30000, 40000, 5000, None)>>]

\* the contents of CONFIG_FILE a controller is constructed on
FileContents ==
    {None, Some(TruncatedFile), Some(EmptyObjectFile), Some(JsonDump(TaughtBefore))}

\* the state after __init__, lines 19-25, on each of these files
TeachInit ==
    /\ file \in FileContents
    /\ positions = load_positions(file)
    /\ connected = FALSE
    /\ current_pos = HomePos
    /\ is_running = FALSE
    /\ pause_requested = FALSE
    /\ stop_requested = FALSE
    /\ pc = "idle"
    /\ op = "none"
    /\ i = 0
    /\ num_hooks = 0
    /\ hook_index = 0
    /\ k = 0
    /\ enc = None
    /\ waiting = FALSE
    /\ gpc = "idle"
    /\ wire = <<>>
    /\ pending = <<>>
    /\ inbuf = <<>>
    /\ progress = <<>>
    /\ acked = {}
    /\ started = <<>>
    /\ interrupted = FALSE
    /\ stopDuring = None
    /\ stopInPause = None
    /\ cleanupAt = None
    /\ port_ok = TRUE
    /\ raised = FALSE
    /\ stopCalled = FALSE
    /\ mode = "abs"
    /\ gwaiting = FALSE
    /\ gk = 0
    /\ genc = None
    /\ queued = FALSE

\* the application is started again: a new controller is constructed on the
\* file the last one left
DexArmController ==
    /\ pc = "idle" /\ gpc = "idle"
    /\ positions' = load_positions(file)
    /\ connected' = FALSE
    /\ current_pos' = HomePos
    /\ is_running' = FALSE
    /\ pause_requested' = FALSE
    /\ stop_requested' = FALSE
    /\ op' = "__init__"
    /\ pending' = <<>>
    /\ inbuf' = <<>>
    /\ wire' = <<>>
    /\ enc' = None
    /\ k' = 0
    /\ hook_index' = 0
    /\ port_ok' = TRUE
    /\ raised' = FALSE
    /\ acked' = {}
    /\ UNCHANGED <<pc, i, num_hooks, waiting, gpc, progress, started, interrupted, stopCalled,
                   stopDuring, stopInPause, cleanupAt, file, guiVars>>

\* self.positions has the key (a dictionary loaded from a file may lack it)
HasKey(key) == key \in DOMAIN positions

\* self.positions[key] = v
SetKey(key, v) == IF HasKey(key) THEN [positions EXCEPT ![key] = v] ELSE Put(positions, key, v)

\* {'x': current_pos['x'], 'y': ..., 'z': ..., 'encoder': encoder}
Sampled == Position(current_pos.x, current_pos.y, current_pos.z, enc)

\* save_positions, lines 249-250: the file is written anew from self.positions
save_positions == file' = Some(JsonDump(positions'))

\* the front end calls set_pick, on a connected controller only; line 255
\* calls get_position, line 257 read_encoder_position
set_pick ==
    /\ connected
    /\ Begin("set_pick", "gp126")
    /\ hook_index' = 0

\* set_pick, lines 258-264; its local encoder is gone when it returns
sp258 ==
    /\ At("sp258")
    /\ positions' = SetKey("pick", Some(Sampled))
    /\ save_positions
    /\ pc' = "idle"
    /\ enc' = None
    /\ k' = 0
    /\ UNCHANGED <<connected, current_pos, is_running, pause_requested, stop_requested,
                   op, i, num_hooks, hook_index, waiting, gpc, ioVars, histVars,
                   port_ok, guiVars, raised>>

\* the front end calls set_safe_z; line 268 calls get_position
set_safe_z ==
    /\ connected
    /\ Begin("set_safe_z", "gp126")
    /\ hook_index' = 0

\* set_safe_z without its save_positions
ssz269_no_save ==
    /\ pc = "ssz269" /\ ~waiting
    /\ positions' = SetKey("safe_z", current_pos.z)
    /\ pc' = "idle"
    /\ UNCHANGED <<connected, current_pos, is_running, pause_requested, stop_requested,
                   op, i, num_hooks, hook_index, k, enc, waiting, gpc, ioVars, histVars,
                   file, port_ok, guiVars, raised>>

\* set_safe_z, lines 269-270
ssz269 ==
    /\ At("ssz269")
    /\ positions' = SetKey("safe_z", current_pos.z)
    /\ save_positions
    /\ pc' = "idle"
    /\ UNCHANGED <<connected, current_pos, is_running, pause_requested, stop_requested,
                   op, i, num_hooks, hook_index, k, enc, waiting, gpc, ioVars, histVars,
                   port_ok, guiVars, raised>>

\* the front end calls add_hook (while the list has room for one more); line
\* 275 calls get_position, line 277 read_encoder_position
add_hook ==
    /\ connected
    /\ HasKey("hooks") => Len(positions.hooks) < MaxHooks
    /\ Begin("add_hook", "gp126")
    /\ hook_index' = 0

\* add_hook, lines 278-285; self.positions['hooks'] raises KeyError when the
\* dictionary has no hooks; its local encoder is gone when it returns
ah278 ==
    /\ At("ah278")
    /\ IF HasKey("hooks")
       THEN /\ positions' = [positions EXCEPT !.hooks = Append(@, Sampled)]
            /\ save_positions
            /\ raised' = raised
       ELSE /\ raised' = TRUE
            /\ UNCHANGED <<positions, file>>
    /\ pc' = "idle"
    /\ enc' = None
    /\ k' = 0
    /\ UNCHANGED <<connected, current_pos, is_running, pause_requested, stop_requested,
                   op, i, num_hooks, hook_index, waiting, gpc, ioVars, histVars,
                   port_ok, guiVars>>

\* the front end calls delete_hook(n)
delete_hook ==
    /\ Begin("delete_hook", "dh289")
    /\ \E n \in (0 - 1)..MaxHooks : hook_index' = n

\* the hook list without the element at index n
WithoutHook(h, n) == SubSeq(h, 1, n) \o SubSeq(h, n + 2, Len(h))

\* delete_hook removing the last hook, whatever the index
dh289_pops_last ==
    /\ pc = "dh289" /\ ~waiting
    /\ IF ~HasKey("hooks")
       THEN /\ raised' = TRUE
            /\ UNCHANGED <<positions, file>>
       ELSE /\ raised' = raised
            /\ IF 0 <= hook_index /\ hook_index < Len(positions.hooks)
               THEN /\ positions' = [positions EXCEPT
                                       !.hooks = WithoutHook(@, Len(positions.hooks) - 1)]
                    /\ save_positions
               ELSE UNCHANGED <<positions, file>>
    /\ pc' = "idle"
    /\ UNCHANGED <<connected, current_pos, is_running, pause_requested, stop_requested,
                   op, i, num_hooks, hook_index, k, enc, waiting, gpc, ioVars, histVars,
                   port_ok, guiVars>>

\* delete_hook, lines 289-291
dh289 ==
    /\ At("dh289")
    /\ IF ~HasKey("hooks")
       THEN /\ raised' = TRUE
            /\ UNCHANGED <<positions, file>>
       ELSE /\ raised' = raised
            /\ IF 0 <= hook_index /\ hook_index < Len(positions.hooks)
               THEN /\ positions' = [positions EXCEPT !.hooks = WithoutHook(@, hook_index)]
                    /\ save_positions
               ELSE UNCHANGED <<positions, file>>
    /\ pc' = "idle"
    /\ UNCHANGED <<connected, current_pos, is_running, pause_requested, stop_requested,
                   op, i, num_hooks, hook_index, k, enc, waiting, gpc, ioVars, histVars,
                   port_ok, guiVars>>

\* the front end calls clear_all_hooks
clear_all_hooks ==
    /\ Begin("clear_all_hooks", "cah295")
    /\ hook_index' = 0

\* clear_all_hooks, lines 295-296
cah295 ==
    /\ At("cah295")
    /\ positions' = SetKey("hooks", <<>>)
    /\ save_positions
    /\ pc' = "idle"
    /\ UNCHANGED <<connected, current_pos, is_running, pause_requested, stop_requested,
                   op, i, num_hooks, hook_index, k, enc, waiting, gpc, ioVars, histVars,
                   port_ok, guiVars, raised>>

\* the firmware of a teaching session: the position report and the ok for
\* M114, the encoder line and the ok for M893
TeachReplies(r) ==
    CASE r.kind = "M114" -> { <<Line(PosLine, NoTag), Line(S_ok, r.of)>> }
      [] r.kind = "M893" -> { <<Line(EncFull, NoTag), Line(S_ok, r.of)>> }
      [] OTHER -> { <<Line(S_ok, r.of)>> }

PeerReplyTeach ==
    /\ pending # <<>>
    /\ \E r \in TeachReplies(Head(pending)) : inbuf' = inbuf \o r
    /\ pending' = Tail(pending)
    /\ UNCHANGED <<progVars, workVars, gpc, wire, histVars, envVars, guiVars>>

\* the firmware has answered every line it was sent: in a teaching session it
\* answers within the time the controller takes to read again (line 160
\* sleeps half a second for that)
Answered == pending = <<>>

TeachNext ==
    \/ DexArmController \/ Connect \/ Disconnect \/ PeerReplyTeach
    \/ set_pick \/ sp258 \/ set_safe_z \/ ssz269 \/ add_hook \/ ah278
    \/ delete_hook \/ dh289 \/ clear_all_hooks \/ cah295
    \/ gp126 \/ rep159
    \/ (Answered /\ ReadOk) \/ (Answered /\ gp128)
    \/ (Answered /\ rep154) \/ (Answered /\ rep163)

TeachSpec == TeachInit /\ [][TeachNext]_vars

(***************************************************************************)
(* The specification.                                                      *)
(***************************************************************************)
Next ==
    \/ Connect \/ Disconnect \/ ReadOk \/ PeerReply
    \/ pause_cycle \/ resume_cycle \/ stop_cycle \/ stop_cycle_496
    \/ pick_blade \/ pick_blade_send \/ pick_blade_return
    \/ place_blade \/ place_blade_send \/ place_blade_return
    \/ run_full_cycle \/ rfc429 \/ rfc430 \/ rfc431 \/ rfc434 \/ rfc436 \/ rfc438
    \/ rfc439 \/ rfc444 \/ rfc445 \/ rfc452 \/ rfc455 \/ rfc458 \/ rfc461 \/ rfc462
    \/ gh83 \/ rfc463
    \/ test_single_hook \/ tsh470 \/ tsh471 \/ tsh477 \/ tsh479 \/ tsh480
    \/ get_position_from_encoder \/ rep154 \/ rep159 \/ rep163 \/ gpe180
    \/ gp126 \/ gp128
    \/ go_to_pick \/ gtp300 \/ go_to_hook \/ gth309 \/ mv102 \/ mv103 \/ mte200 \/ mte206

Spec == Init /\ [][Next]_vars

(***************************************************************************)
(* Properties.  Done(name): operation name has returned and nothing has    *)
(* been called since; wire is then the whole trace of that operation.      *)
(***************************************************************************)
Done(name) == pc = "idle" /\ op = name

\* command c is a G1 to (x, y, z), all three axes given
MoveXYZ(c, x, y, z) ==
    c.op = "G1" /\ c.x = Some(Fmt2(x)) /\ c.y = Some(Fmt2(y)) /\ c.z = Some(Fmt2(z))

\* command c is a G1 that gives Z only
MoveZ(c, z) == c.op = "G1" /\ c.x = None /\ c.y = None /\ c.z = Some(Fmt2(z))

\* the seven commands of a pick sequence follow w[b]
IsPickAt(w, b) ==
    LET p == positions.pick[1]
    IN  /\ Len(w) >= b + 7
        /\ MoveXYZ(w[b + 1], p.x, p.y, positions.safe_z)
        /\ w[b + 2].op = "M400"
        /\ w[b + 3].op = "M1000"
        /\ MoveZ(w[b + 4], p.z)
        /\ w[b + 5].op = "M400"
        /\ MoveZ(w[b + 6], positions.safe_z)
        /\ w[b + 7].op = "M400"

\* the eight commands of a place sequence at hook h follow w[b]
IsPlaceAt(w, b, h) ==
    /\ Len(w) >= b + 8
    /\ MoveXYZ(w[b + 1], h.x, h.y, positions.safe_z)
    /\ w[b + 2].op = "M400"
    /\ MoveZ(w[b + 3], h.z)
    /\ w[b + 4].op = "M400"
    /\ w[b + 5].op = "M1002"
    /\ w[b + 6].op = "M1003"
    /\ MoveZ(w[b + 7], positions.safe_z)
    /\ w[b + 8].op = "M400"

\* the names of the commands of w
Ops(w) == [j \in 1..Len(w) |-> w[j].op]

\* a connected controller with a pick point taught
Ready == connected /\ positions.pick # None

\* C1: a run_full_cycle that is neither paused nor stopped, on a connected
\* controller with a pick point taught and N hooks, issues M2000, then for
\* each hook 0..N-1 in store order the pick sequence followed by the place
\* sequence at that hook, then the cleanup; progress_callback is called N
\* times, with (1,N) .. (N,N) in this order, the n-th call right after the
\* last command of the n-th pair has been acknowledged.
C1_UninterruptedCycle ==
    (Done("run_full_cycle") /\ Ready /\ ~interrupted) =>
        LET N == Len(positions.hooks)
        IN  /\ Len(wire) = 1 + 15 * N + 2
            /\ wire[1].op = "M2000"
            /\ \A n \in 0..(N - 1) :
                /\ IsPickAt(wire, 1 + 15 * n)
                /\ IsPlaceAt(wire, 1 + 15 * n + 7, positions.hooks[n + 1])
            /\ progress = [n \in 1..N |-> [done |-> n, total |-> N, at |-> 1 + 15 * n]]

C1_Witness ==
    /\ Done("run_full_cycle") /\ Ready /\ ~interrupted
    /\ Len(positions.hooks) = 2
    /\ Len(progress) = 2

\* C2: once stop_cycle has been called while run_full_cycle executes the pair
\* of hook i, the worker executes pick/place code for hook i only, and the run
\* ends having issued the whole pair of hook i and no command of a later pair.
C2_StopDuringPair ==
    /\ (InCycle /\ stopDuring # None
          /\ pc \in {"rfc452", "pb345", "pick", "rfc455", "pl386", "place", "rfc458"})
       => i = stopDuring[1]
    /\ (Done("run_full_cycle") /\ stopDuring # None) =>
          started = [n \in 1..(stopDuring[1] + 1) |-> n - 1]
    /\ (Done("run_full_cycle") /\ stopDuring # None /\ Ready) =>
          LET n == stopDuring[1]
          IN  /\ Len(wire) = 1 + 15 * (n + 1) + 2
              /\ IsPickAt(wire, 1 + 15 * n)
              /\ IsPlaceAt(wire, 1 + 15 * n + 7, positions.hooks[n + 1])
              /\ Len(progress) = n + 1

C2_Witness ==
    /\ Done("run_full_cycle") /\ Ready
    /\ stopDuring = Some(0)
    /\ Len(positions.hooks) = 2
    /\ Len(wire) = 18

\* the commands issued since the loop of run_full_cycle was left
SinceCleanup == SubSeq(wire, cleanupAt[1] + 1, Len(wire))

\* C3: however the loop of run_full_cycle is left (all hooks done, stop
\* requested, pick_blade or place_blade failing), what the run issues from
\* then on is M1003 followed by M1112 and nothing else; is_running stays true
\* from line 429 until both have been issued, and is false when the run
\* returns.
C3_CleanupAfterLoop ==
    /\ (InCycle /\ pc \in {"rfc461", "rfc462", "gh83", "rfc463"}) <=> (InCycle /\ cleanupAt # None)
    /\ (op = "run_full_cycle" /\ cleanupAt # None /\ connected) =>
          /\ Len(SinceCleanup) <= 2
          /\ Ops(SinceCleanup) = SubSeq(<<"M1003", "M1112">>, 1, Len(SinceCleanup))
    /\ (InCycle /\ pc # "rfc429") => is_running
    /\ (InCycle /\ pc = "rfc463" /\ connected) => Ops(SinceCleanup) = <<"M1003", "M1112">>
    /\ Done("run_full_cycle") =>
          /\ ~is_running
          /\ cleanupAt # None
          /\ connected => Ops(SinceCleanup) = <<"M1003", "M1112">>

C3_Witness ==
    /\ Done("run_full_cycle") /\ Ready
    /\ stop_requested
    /\ Len(progress) = 1
    /\ Len(positions.hooks) = 2
    /\ Ops(SinceCleanup) = <<"M1003", "M1112">>

\* the places of the G1 commands in the trace, in order
IsG1At(j) == wire[j].op = "G1"
G1Places == SelectSeq([j \in 1..Len(wire) |-> j], IsG1At)

\* the place of the first command named o in the trace
First(o) == CHOOSE j \in 1..Len(wire) : wire[j].op = o /\ \A m \in 1..(j - 1) : wire[m].op # o

\* C4: pick_blade followed by place_blade(i), as test_single_hook runs them on
\* a connected controller with a pick taught and a valid i, issues exactly six
\* moves: to (pick.x, pick.y, safe_z), to pick.z, to safe_z, to (hook.x,
\* hook.y, safe_z), to hook.z, to safe_z; M1000 is issued before the move to
\* pick.z, and M1002 then M1003 after the move to hook.z and before the move
\* that raises from it.
C4_PickThenPlaceOrder ==
    (Done("test_single_hook") /\ Ready /\ hook_index \in 0..(Len(positions.hooks) - 1)) =>
        LET p == positions.pick[1]
            h == HookAt(hook_index)
            g == G1Places
        IN  /\ Len(g) = 6
            /\ MoveXYZ(wire[g[1]], p.x, p.y, positions.safe_z)
            /\ MoveZ(wire[g[2]], p.z)
            /\ MoveZ(wire[g[3]], positions.safe_z)
            /\ MoveXYZ(wire[g[4]], h.x, h.y, positions.safe_z)
            /\ MoveZ(wire[g[5]], h.z)
            /\ MoveZ(wire[g[6]], positions.safe_z)
            /\ \E j \in 1..Len(wire) : wire[j].op = "M1000"
            /\ g[1] < First("M1000") /\ First("M1000") < g[2]
            /\ \E j \in 1..Len(wire) : wire[j].op = "M1002"
            /\ g[5] < First("M1002")
            /\ First("M1002") < First("M1003")
            /\ First("M1003") < g[6]

C4_Witness ==
    /\ Done("test_single_hook") /\ Ready
    /\ hook_index = 1
    /\ Len(positions.hooks) = 2
    /\ Len(G1Places) = 6

\* the operations that run pick_blade and place_blade
CycleOp == op \in {"run_full_cycle", "test_single_hook"}

\* C5 (as claimed): in the trace of run_full_cycle and of test_single_hook
\* every G1 is immediately followed by M400, and when the command after an
\* M400 is transmitted the ok that answers this M400 has been received.
C5_MoveThenWaitAcked ==
    CycleOp =>
        \A j \in 1..(Len(wire) - 1) :
            /\ wire[j].op = "G1" => wire[j + 1].op = "M400"
            /\ wire[j].op = "M400" => Tag("M400", j) \in acked

\* C6 (as claimed): once stop_cycle has been called while run_full_cycle spins
\* in its pause loop before hook i, no pair is begun for hook i or a later one.
C6_StopWhilePaused ==
    (op = "run_full_cycle" /\ stopInPause # None) =>
        \A j \in 1..Len(started) : started[j] < stopInPause[1]

\* the worker is in the pause loop of run_full_cycle, paused and not stopped
PausedAtBoundary ==
    InCycle /\ pc \in {"rfc444", "rfc445"} /\ pause_requested /\ ~stop_requested

\* C7: while pause_requested is set and stop_requested is not, the worker at
\* a hook boundary stays in the pause loop and issues nothing; it leaves the
\* loop with the hook index it entered with; the pairs a run begins are those
\* of hooks 0, 1, 2, .. with no index left out or repeated, and a run that
\* was not stopped ends with all N pairs done, however often it was paused.
C7_PauseResume ==
    /\ [][PausedAtBoundary =>
            (pc' \in {"rfc444", "rfc445"} /\ wire' = wire /\ started' = started /\ i' = i)]_vars
    /\ [][(InCycle /\ pc \in {"rfc444", "rfc445"} /\ pc' = "rfc452") => i' = i]_vars
    /\ [](op = "run_full_cycle" => started = [n \in 1..Len(started) |-> n - 1])
    /\ []((Done("run_full_cycle") /\ Ready /\ ~stop_requested) =>
            /\ Len(started) = Len(positions.hooks)
            /\ Len(progress) = Len(positions.hooks))

C7_Witness ==
    /\ PausedAtBoundary /\ Ready
    /\ pc = "rfc445"
    /\ i = 1
    /\ started = <<0>>
    /\ Len(progress) = 1

\* C8 (as claimed): test_single_hook(i) issues one pick sequence, then one
\* place sequence at hook i, then M1003, never M1112, and returns with
\* is_running false.
C8_TestSingleHook ==
    (Done("test_single_hook") /\ connected /\ hook_index \in 0..(Len(positions.hooks) - 1)) =>
        /\ Len(wire) = 16
        /\ positions.pick # None
        /\ IsPickAt(wire, 0)
        /\ IsPlaceAt(wire, 7, HookAt(hook_index))
        /\ wire[16].op = "M1003"
        /\ \A j \in 1..Len(wire) : wire[j].op # "M1112"
        /\ ~is_running

\* go_to_pick / go_to_hook was called and the Position it names exists
GoToOp == op \in {"go_to_pick", "go_to_hook"}
TargetExists ==
    IF op = "go_to_pick" THEN positions.pick # None ELSE hook_index < Len(positions.hooks)

NoG1 == \A j \in 1..Len(wire) : wire[j].op # "G1"

Taught ==
    (IF positions.pick = None THEN {} ELSE {positions.pick[1]})
        \cup { positions.hooks[n] : n \in 1..Len(positions.hooks) }
TaughtWithToken == { p \in Taught : Truthy(p.encoder) }

\* C10 (as claimed): no motion command is built from the x, y, z of a taught
\* Position whose encoder token is set.
C10_CartesianUnused ==
    \A j \in 1..Len(wire) : \A p \in TaughtWithToken :
        ~(wire[j].op = "G1" /\ wire[j].x = Some(Fmt2(p.x)) /\ wire[j].y = Some(Fmt2(p.y)))

\* C10 (amended): go_to_pick and go_to_hook build no G1 for a Position whose
\* encoder token is set; pick_blade and place_blade never issue the replay
\* command: their moves are built from the Cartesian x, y, z of the pick point
\* and of the hook, whether or not an encoder token is set.
C10_CartesianInCycleOnly ==
    /\ (GoToOp /\ TargetExists /\ Truthy(Target.encoder)) => NoG1
    /\ CycleOp => \A j \in 1..Len(wire) :
          /\ wire[j].op # "M894"
          /\ (wire[j].op = "G1" /\ wire[j].x # None) =>
                \E p \in Taught : MoveXYZ(wire[j], p.x, p.y, positions.safe_z)
    /\ (Done("test_single_hook") /\ Ready /\ hook_index \in 0..(Len(positions.hooks) - 1)) =>
          /\ IsPickAt(wire, 0)
          /\ IsPlaceAt(wire, 7, HookAt(hook_index))

C10_Witness ==
    /\ Done("test_single_hook") /\ Ready
    /\ hook_index = 1 /\ Len(positions.hooks) = 2
    /\ Truthy(positions.pick[1].encoder)
    /\ Truthy(HookAt(hook_index).encoder)
    /\ IsPickAt(wire, 0)

(***************************************************************************)
(* C12: place_blade with an index outside the hook list.                   *)
(***************************************************************************)
\* place_blade was called with an index that names no hook
OutOfRange == hook_index \notin 0..(Len(positions.hooks) - 1)

\* a command only place_blade issues: the release of the blade
Released == \E j \in 1..Len(wire) : wire[j].op = "M1002"

\* C12 (as claimed): for every hook index outside 0..len(hooks)-1, negative
\* indices included, place_blade returns failure (it does not raise) and
\* transmits no command: the operation never reaches the commands of the
\* place sequence.
C12_PlaceOutOfRange ==
    (op = "test_single_hook" /\ OutOfRange) =>
        /\ ~raised
        /\ pc # "place"
        /\ ~Released

(***************************************************************************)
(* C18: the terminator of every line written.                              *)
(***************************************************************************)
\* C18 (as claimed): every command written to the transport, the encoder
\* query M893 included, is terminated by a carriage return.
C18_CarriageReturn == \A j \in 1..Len(wire) : wire[j].term = "\r"

(***************************************************************************)
(* C16: send_command waits for the acknowledgement.                        *)
(***************************************************************************)
\* the line contains "ok" in any mix of upper and lower case
HasAckToken(txt) ==
    \E j \in 1..(Len(txt) - 1) : txt[j] \in {"o", "O"} /\ txt[j + 1] \in {"k", "K"}

\* send_command takes a line from the input buffer
TakesLine == waiting /\ Len(inbuf') < Len(inbuf)

\* C16: send_command(cmd, wait_ok=True) on a connected controller takes the
\* received lines one by one; it goes on waiting after every line without
\* "ok" (in any case), empty lines included, and returns on the first line
\* that contains it; it returns without raising only then, and the caller
\* does not go on while it waits.
C16_AckWait ==
    /\ [][TakesLine => /\ inbuf' = Tail(inbuf)
                       /\ waiting' <=> ~HasAckToken(Head(inbuf).txt)]_vars
    /\ [][(waiting /\ ~waiting' /\ port_ok) =>
              /\ inbuf # <<>> /\ HasAckToken(Head(inbuf).txt)
              /\ inbuf' = Tail(inbuf)
              /\ acked' = acked \cup {Head(inbuf).of}]_vars
    /\ [][(waiting /\ waiting') => pc' = pc]_vars

\* get_position sent M114 on an empty buffer and send_command has returned on
\* the "OK" that followed an empty line; the position report cut short is
\* what is left to read
C16_Witness ==
    /\ op = "get_position" /\ pc = "gp128" /\ ~waiting /\ port_ok
    /\ acked = {Tag("M114", 1)}
    /\ inbuf = <<Line(PosShort, NoTag)>>

(***************************************************************************)
(* C17: exceptions of the transport.                                       *)
(***************************************************************************)
\* C17 (as claimed): no exception raised by the transport while a command is
\* written or a response is read, in send_command or in the encoder query,
\* reaches the caller of the operation.
C17_IOErrorsCaught ==
    op \in {"get_position", "get_position_from_encoder"} => ~raised

(***************************************************************************)
(* C19, C20: what the position queries do to current_pos.                  *)
(***************************************************************************)
\* the white-space separated tokens of an encoder response after its prefix
HasPrefix(s) == Len(s) >= 4 /\ SubSeq(s, 1, 4) = S_M894
EncTokens(s) == Split(IF HasPrefix(s) THEN SubSeq(s, 5, Len(s)) ELSE s)

\* an axis token: the letter X, Y or Z and a number
IsAxisToken(t) ==
    /\ Len(t) >= 2
    /\ t[1] \in {"X", "Y", "Z"}
    /\ AllDigits(SubSeq(t, 2, Len(t)))

\* a well-formed encoder response: the prefix M894 or not, then axis tokens,
\* each axis at most once
WellFormedEnc(s) ==
    /\ \A j \in 1..Len(EncTokens(s)) : IsAxisToken(EncTokens(s)[j])
    /\ \A j, l \in 1..Len(EncTokens(s)) : j # l => EncTokens(s)[j][1] # EncTokens(s)[l][1]
    /\ HasPrefix(s) \/ EncTokens(s) # <<>>

\* the axes a well-formed response carries, and the value of each
HasAxis(s, letter) == \E j \in 1..Len(EncTokens(s)) : EncTokens(s)[j][1] = letter
AxisValue(s, letter) ==
    LET t == EncTokens(s)[CHOOSE j \in 1..Len(EncTokens(s)) : EncTokens(s)[j][1] = letter]
    IN  1000 * NatVal(SubSeq(t, 2, Len(t)))

\* a well-formed position report: "X:<number> Y:<number> Z:<number>", more
\* fields or not after them
WellFormedPos(s) ==
    LET parts == Split(s)
    IN  /\ Len(parts) >= 3
        /\ \A n \in 1..3 :
              /\ Len(parts[n]) >= 3
              /\ parts[n][1] = <<"X", "Y", "Z">>[n] /\ parts[n][2] = ":"
              /\ IsFloat(SubSeq(parts[n], 3, Len(parts[n])))

\* get_position reads its line, get_position_from_encoder parses its response
ReadsPosition == pc = "gp128" /\ ~waiting /\ pc' # pc
ParsesEncoder == pc = "gpe180" /\ ~waiting /\ pc' # pc

\* the line get_position reads: none when the port yields none
NoPositionLine == ~connected \/ ~port_ok \/ inbuf = <<>>

\* C19 (as claimed): get_position with a malformed or absent position report,
\* and get_position_from_encoder with a malformed or absent encoder response,
\* leave current_pos as it was, on all three axes.
C19_StaleOnFailure ==
    /\ [][(ReadsPosition /\ (NoPositionLine \/ ~WellFormedPos(Head(inbuf).txt)))
              => current_pos' = current_pos]_vars
    /\ [][(ParsesEncoder /\ (enc = None \/ ~WellFormedEnc(enc[1])))
              => current_pos' = current_pos]_vars

\* read_encoder_position takes a line off the input buffer
PollsLine == pc = "rep163" /\ port_ok /\ k < EncAttempts /\ inbuf # <<>> /\ inbuf' = Tail(inbuf)

\* current_pos after the parse of the response s: the value of the token on
\* the axes s carries, the old value on the others
Merged(s) ==
    [x |-> IF HasAxis(s, "X") THEN AxisValue(s, "X") ELSE current_pos.x,
     y |-> IF HasAxis(s, "Y") THEN AxisValue(s, "Y") ELSE current_pos.y,
     z |-> IF HasAxis(s, "Z") THEN AxisValue(s, "Z") ELSE current_pos.z]

\* C20 (as claimed): a well-formed encoder response that carries tokens for a
\* subset of the axes, with the prefix M894 or without it, is the response
\* get_position_from_encoder works on, and current_pos is set on exactly the
\* axes whose token is present.
C20_EncoderMerge ==
    /\ [][(PollsLine /\ WellFormedEnc(Strip(Head(inbuf).txt)))
              => enc' = Some(Strip(Head(inbuf).txt)) /\ pc' # pc]_vars
    /\ [][(ParsesEncoder /\ enc # None /\ WellFormedEnc(enc[1]))
              => current_pos' = Merged(enc[1])]_vars

\* C20 (amended): a well-formed encoder response is the response
\* get_position_from_encoder works on exactly when it has the prefix M894
\* (white space after it or not) or carries all three axes; current_pos is
\* then set on exactly the axes whose token is present, the others keeping
\* their value.  A response without the prefix that lacks an axis is passed
\* over like any other line.
C20_EncoderMergeRecognised ==
    /\ [][(PollsLine /\ WellFormedEnc(Strip(Head(inbuf).txt))) =>
              LET s == Strip(Head(inbuf).txt)
              IN  IF \/ HasPrefix(s)
                     \/ (HasAxis(s, "X") /\ HasAxis(s, "Y") /\ HasAxis(s, "Z"))
                  THEN enc' = Some(s) /\ pc' # pc
                  ELSE enc' = enc /\ pc' = pc /\ current_pos' = current_pos]_vars
    /\ [][(ParsesEncoder /\ enc # None /\ WellFormedEnc(enc[1]))
              => current_pos' = Merged(enc[1])]_vars

\* the response "M894 X4 Z6" was parsed at the home position: X and Z are
\* set, Y is still the home position's
C20_Witness ==
    /\ Done("get_position_from_encoder") /\ ~raised
    /\ enc = Some(EncXZ)
    /\ current_pos = [x |-> 4000, y |-> HomePos.y, z |-> 6000]


(***************************************************************************)
(* The taught-position store.                                              *)
(***************************************************************************)
\* CLAIM C11: for a dictionary that has a hook list, delete_hook(n) with
\* 0 <= n < len(hooks) removes exactly the element at index n, leaves the
\* elements before it in place and moves every later element down by one, in
\* the same order, leaving pick and safe_z alone; with any other n it leaves
\* the positions and the persisted record unchanged and raises no error.
C11_DeleteHook ==
    [][(pc = "dh289" /\ pc' = "idle" /\ HasKey("hooks")) =>
         LET h == positions.hooks
             n == hook_index
         IN  IF 0 <= n /\ n < Len(h)
             THEN /\ Len(positions'.hooks) = Len(h) - 1
                  /\ \A j \in 1..n : positions'.hooks[j] = h[j]
                  /\ \A j \in (n + 2)..Len(h) : positions'.hooks[j - 1] = h[j]
                  /\ DOMAIN positions' = DOMAIN positions
                  /\ \A key \in DOMAIN positions \ {"hooks"} : positions'[key] = positions[key]
                  /\ raised' = raised
             ELSE /\ positions' = positions
                  /\ file' = file
                  /\ raised' = raised]_vars

\* delete_hook(0) has returned on the record taught earlier with one more hook
\* added: the added hook has moved from index 1 to index 0
C11_Witness ==
    /\ Done("delete_hook") /\ hook_index = 0 /\ ~raised
    /\ HasKey("hooks") /\ HasKey("pick")
    /\ positions.pick = TaughtBefore.pick
    /\ positions.hooks = <<Position(10000, 20000, 5000, Some(EncFull))>>

\* the persisted record is the text json.dump writes for self.positions
Synced == file = Some(JsonDump(positions))

TeachOps == {"set_pick", "set_safe_z", "add_hook", "delete_hook", "clear_all_hooks"}

\* a teach operation returns in this step, having raised nothing
TeachReturns ==
    /\ pc # "idle" /\ pc' = "idle"
    /\ op \in TeachOps
    /\ ~raised'
    /\ op = "delete_hook" => (0 <= hook_index /\ hook_index < Len(positions.hooks))

\* CLAIM C13: when set_pick, set_safe_z, add_hook, delete_hook with a valid
\* index or clear_all_hooks returns, the persisted record equals the whole
\* dictionary self.positions; and once the two are equal no step that changes
\* either makes them differ, so they stay equal through any sequence of these
\* operations.
C13_SavedOnReturn ==
    /\ [][TeachReturns => Synced']_vars
    /\ [][((positions' # positions \/ file' # file) /\ Synced) => Synced']_vars

\* add_hook has returned after a pick was taught, with two hooks in the list
C13_Witness ==
    /\ Done("add_hook") /\ ~raised
    /\ HasKey("pick") /\ HasKey("hooks") /\ HasKey("safe_z")
    /\ positions.pick = Some(Position(10000, 20000, 5000, Some(EncFull)))
    /\ Len(positions.hooks) = 2
    /\ Synced

\* the default and the record taught earlier, saved and loaded again
TaughtRoundTrip ==
    \A T \in {DefaultPositions, TaughtBefore} : load_positions(Some(JsonDump(T))) = T

\* CLAIM C14: save_positions followed by load_positions yields the same
\* dictionary: for the default (pick null, no hooks), for the record taught
\* earlier (a coordinate with three decimals, an encoder token with a quote
\* and a backslash, a hook with a null encoder), for every dictionary the
\* teach operations leave when they return; and a controller constructed on the file
\* save_positions wrote has the positions that were saved.
C14_RoundTrip ==
    /\ [](op = "none" => TaughtRoundTrip)
    /\ [](pc = "idle" => load_positions(Some(JsonDump(positions))) = positions)
    /\ [][(op' = "__init__" /\ file = Some(JsonDump(positions))) => positions' = positions]_vars

\* a controller has been constructed on a saved record with a pick whose token
\* needs escapes, a hook with a null encoder and a hook taught after it
C14_Witness ==
    /\ Done("__init__")
    /\ HasKey("pick") /\ HasKey("hooks") /\ HasKey("safe_z")
    /\ file = Some(JsonDump(positions))
    /\ positions.pick = TaughtBefore.pick
    /\ Len(positions.hooks) = 2
    /\ positions.hooks[1].encoder = None
    /\ positions.hooks[2].encoder = Some(EncFull)

\* the file is a record with pick, safe_z and hooks
IsRecordFile(f) ==
    /\ f # None
    /\ JsonLoad(f[1]) # None
    /\ {"pick", "safe_z", "hooks"} \subseteq DOMAIN JsonLoad(f[1])[1]

\* CLAIM C15: a controller constructed on a file that is missing, unparseable,
\* or parseable but no record with pick, safe_z and hooks, has the default
\* positions {pick: null, safe_z: 0, hooks: []}.
C15_DefaultOnCorrupt ==
    (op \in {"none", "__init__"} /\ ~IsRecordFile(file)) => positions = DefaultPositions

(***************************************************************************)
(* The run-time flags, the tracked position, and the threads.              *)
(***************************************************************************)
\* connect(port) returned True in this step
ConnectSucceeds == pc = "idle" /\ op' = "connect" /\ connected'

\* C21 (as claimed): after every successful connect, a reconnect after a
\* disconnect included, is_running, pause_requested and stop_requested are
\* all false, whatever they were before.
C21_FlagsResetOnConnect ==
    [][ConnectSucceeds => (~is_running' /\ ~pause_requested' /\ ~stop_requested')]_vars

\* a coordinate as commanded: the value, or the value as the G1 line wrote it
Commanded(v) == {v, 10 * Fmt2(v)}

\* C22 (as claimed): when an operation that issues a motion command has
\* returned, current_pos is the last commanded target: after go_to_pick and
\* go_to_hook by move_to the point moved to, after test_single_hook (pick_blade
\* then place_blade) the point above the hook at the safe height.
C22_TrackedAfterMotion ==
    /\ (GoToOp /\ pc = "idle" /\ connected /\ TargetExists /\ ~Truthy(Target.encoder)) =>
            current_pos = [x |-> Target.x, y |-> Target.y, z |-> Target.z]
    /\ (Done("test_single_hook") /\ Ready /\ hook_index \in 0..(Len(positions.hooks) - 1)) =>
            /\ current_pos.x \in Commanded(HookAt(hook_index).x)
            /\ current_pos.y \in Commanded(HookAt(hook_index).y)
            /\ current_pos.z \in Commanded(positions.safe_z)

(***************************************************************************)
(* The encoder query against a firmware that also sends lines nobody asked *)
(* for, with a worker thread that runs whenever it can.                    *)
(***************************************************************************)
\* the lines the input buffer holds at most before the firmware sends more
MaxBuf == 2

\* "wait": a line the firmware sends unasked
S_wait == <<"w", "a", "i", "t">>

\* the firmware sends a line nobody asked for
PeerSends ==
    /\ connected /\ port_ok
    /\ Len(inbuf) < MaxBuf
    /\ inbuf' = Append(inbuf, Line(S_wait, NoTag))
    /\ UNCHANGED <<progVars, workVars, gpc, wire, pending, histVars, envVars, guiVars>>

\* the steps of the thread that runs get_position_from_encoder
EncoderWorker == rep154 \/ rep159 \/ rep163 \/ gpe180

EncNext ==
    \/ Connect \/ Disconnect \/ PeerReplyAny \/ PeerSends
    \/ get_position_from_encoder \/ rep154 \/ rep159 \/ rep163 \/ gpe180

EncSpec == QueryInit /\ [][EncNext]_vars /\ WF_vars(EncoderWorker)

\* the worker is inside read_encoder_position
InReadEncoder == pc \in {"rep154", "rep159", "rep163"}

\* C23 (as claimed): read_encoder_position terminates whatever the firmware
\* does, a firmware that keeps sending lines included; it makes at most
\* EncAttempts read attempts, and what it returns is None or a line that holds
\* M894 or all of X, Y and Z.
C23_EncoderQueryReturns ==
    /\ InReadEncoder ~> ~InReadEncoder
    /\ [](k <= EncAttempts)
    /\ [][(pc = "rep163" /\ pc' # "rep163") => (enc' = None \/ EncFilter(enc'[1]))]_vars
\* C24 (as claimed): a stop request made at any point after run_full_cycle was
\* invoked is never lost: at the next boundary check of the loop (line 439)
\* the run leaves the loop and processes no further hook.
C24_StopNeverLost ==
    [][(stopCalled /\ pc = "rfc439" /\ pc' # "rfc439") => pc' = "rfc461"]_vars


\* the pick and place commands of hook n, 15 in all, are the last commands
\* transmitted
PairTransmitted(n) ==
    /\ Len(wire) >= 15
    /\ IsPickAt(wire, Len(wire) - 15)
    /\ IsPlaceAt(wire, Len(wire) - 8, HookAt(n))

\* each of the last 15 commands transmitted was answered by an ok
PairAcknowledged ==
    \A j \in (Len(wire) - 14)..Len(wire) : j >= 1 /\ Tag(wire[j].op, j) \in acked

\* C26 (as claimed): progress (i + 1, N) is reported at line 459 only when every
\* command of that pick/place pair was transmitted and acknowledged.
C26_ProgressOnlyAfterSuccess ==
    [][(pc = "rfc458" /\ pc' = "rfc438") => (PairTransmitted(i) /\ PairAcknowledged)]_vars


(***************************************************************************)
(* run_full_cycle under fair scheduling: the worker thread keeps running,   *)
(* the firmware answers what it received, the front end finishes a          *)
(* stop_cycle it began and follows a pause by a resume or a stop.           *)
(***************************************************************************)
LiveInit == Init /\ positions.pick \in {None, Some(Position(10004, 20000, 5000, None))}

\* the steps of the thread that runs run_full_cycle
CycleWorker ==
    \/ ReadOk
    \/ pick_blade \/ pick_blade_send \/ pick_blade_return
    \/ place_blade \/ place_blade_send \/ place_blade_return
    \/ rfc429 \/ rfc430 \/ rfc431 \/ rfc434 \/ rfc436 \/ rfc438
    \/ rfc439 \/ rfc444 \/ rfc445 \/ rfc452 \/ rfc455 \/ rfc458 \/ rfc461 \/ rfc462
    \/ gh83 \/ rfc463

\* the worker finds pause_requested clear at line 444 and leaves the loop
LeavesPause == rfc444 /\ ~pause_requested

\* the pause button, which the front end does not press again within the
\* sleep of line 445 in which it resumed the run: the worker polls the flag
\* every 0.1 s
LivePause == pause_cycle /\ ~(pc = "rfc445" /\ ~pause_requested)

\* a pause is followed by a resume or a stop
PauseEnds == pause_requested /\ (resume_cycle \/ stop_cycle)

LiveNext ==
    \/ Connect \/ Disconnect \/ PeerReply
    \/ LivePause \/ resume_cycle \/ stop_cycle \/ stop_cycle_496
    \/ run_full_cycle \/ CycleWorker

LiveSpec ==
    /\ LiveInit /\ [][LiveNext]_vars
    /\ WF_vars(CycleWorker) /\ SF_vars(LeavesPause)
    /\ WF_vars(PeerReply)
    /\ WF_vars(stop_cycle_496) /\ WF_vars(PauseEnds)

MaxJog == 1
\* the commands of a trace that are followed after the first command written
\* by the main thread
MaxTrace == 4

\* jog_distance, 10.0 by default (blade_loader_gui.py, line 19), times the
\* direction of the button
JogDistances == {10000, 0 - 10000}

\* the axes of the jog buttons the model presses
JogAxes == {"z"}

\* f"G1 F1000 X{distance}", the same for Y and Z
G1jog(axis, d) == [Cmd("G1") EXCEPT !.f = 1000, ![axis] = Some(d \div 10)]

\* the front end is idle and the pick and hooks it tests are taught
GuiInit == Init /\ positions.pick = Some(Position(10004, 20000, 5000, None))
                /\ positions.hooks = <<HookPool(1)>>

\* the commands of the trace written by the main thread
GuiPlaces == SelectSeq([j \in 1..Len(wire) |-> j], LAMBDA j : wire[j].op \in {"G91", "M893"})

\* the trace is followed for MaxTrace commands after the first command of the
\* main thread
InTrace == GuiPlaces' = <<>> \/ Len(wire') - GuiPlaces'[1] <= MaxTrace

\* send_command on the main thread, up to its wait for ok
GuiSend(c) ==
    IF connected /\ port_ok
    THEN /\ wire' = Append(wire, c)
         /\ pending' = Append(pending, Received(c.op, Len(wire) + 1))
         /\ gwaiting' = TRUE
    ELSE UNCHANGED <<wire, pending, gwaiting>>

\* the main thread is at line l and not blocked inside send_command
GuiAt(l) == gpc = l /\ ~gwaiting

\* send_command on the main thread, lines 69-75: one readline() of its loop
GuiReadOk ==
    /\ gwaiting
    /\ port_ok
    /\ inbuf # <<>>
    /\ inbuf' = Tail(inbuf)
    /\ IF HasOk(Head(inbuf).txt)
       THEN gwaiting' = FALSE /\ acked' = acked \cup {Head(inbuf).of}
       ELSE UNCHANGED <<gwaiting, acked>>
    /\ UNCHANGED <<progVars, workVars, gpc, wire, pending, progress, started, interrupted,
                   stopCalled, stopDuring, stopInPause, cleanupAt, envVars>>
    /\ UNCHANGED <<mode, gk, genc, queued>>

\* the jog commands of the trace
JogPlaces == SelectSeq([j \in 1..Len(wire) |-> j], LAMBDA j : wire[j].op = "G91")

\* the main loop takes the next click: it is in no handler, and it has run
\* the callback a test thread queued with root.after(0, ...)
MainLoopFree == gpc = "idle" /\ ~queued

\* BladeLoaderGUI.jog, lines 233-236: connected, and controller.jog is called
gui_jog ==
    /\ MainLoopFree
    /\ connected
    /\ Len(JogPlaces) < MaxJog
    /\ gpc' = "jog108"
    /\ UNCHANGED <<progVars, workVars, ioVars, histVars, envVars, guiVars>>

\* jog, line 108: self.send_command("G91"); the firmware is in relative mode
\* once it has the command
jog108 ==
    /\ GuiAt("jog108")
    /\ GuiSend(Cmd("G91"))
    /\ mode' = IF connected /\ port_ok THEN "rel" ELSE mode
    /\ gpc' = "jog112"
    /\ InTrace
    /\ UNCHANGED <<progVars, workVars, inbuf, histVars, envVars>>
    /\ UNCHANGED <<gk, genc, queued>>

\* the axis and distance of the jog the main thread is in: those of the last
\* G1 F1000 of the trace
LastJog ==
    LET j == CHOOSE n \in 1..Len(wire) :
                 /\ wire[n].op = "G1" /\ wire[n].f = 1000
                 /\ \A m \in (n + 1)..Len(wire) : ~(wire[m].op = "G1" /\ wire[m].f = 1000)
        a == IF wire[j].x # None THEN "x" ELSE IF wire[j].y # None THEN "y" ELSE "z"
    IN  [axis |-> a, distance |-> 10 * wire[j][a][1]]

\* jog, lines 111-119: self.send_command(f"G1 F1000 X{distance}") for the
\* axis given
jog112 ==
    /\ GuiAt("jog112")
    /\ \E axis \in JogAxes, d \in JogDistances :
          /\ current_pos[axis] + d - HomePos[axis] \in (0 - MaxJog * 10000)..(MaxJog * 10000)
          /\ GuiSend(G1jog(axis, d))
    /\ gpc' = "jog113"
    /\ InTrace
    /\ UNCHANGED <<progVars, workVars, inbuf, histVars, envVars>>
    /\ UNCHANGED <<mode, gk, genc, queued>>

\* jog, lines 113-122: self.current_pos[axis] += distance, once send_command
\* has returned, then self.send_command("G90")
jog113 ==
    /\ GuiAt("jog113")
    /\ current_pos' = [current_pos EXCEPT ![LastJog.axis] = @ + LastJog.distance]
    /\ GuiSend(Cmd("G90"))
    /\ mode' = IF connected /\ port_ok THEN "abs" ELSE mode
    /\ gpc' = "jog237"
    /\ InTrace
    /\ UNCHANGED <<connected, positions, is_running, pause_requested, stop_requested,
                   workVars, inbuf, histVars, envVars>>
    /\ UNCHANGED <<gk, genc, queued>>

\* BladeLoaderGUI.jog, line 237, and the callback of test_hook, line 336:
\* self.controller.get_position_from_encoder() on the main thread.
\* read_encoder_position, lines 154-155: while in_waiting: readline()
gui_rep154 ==
    /\ GuiAt("jog237")
    /\ IF inbuf # <<>>
       THEN inbuf' = Tail(inbuf) /\ gpc' = gpc
       ELSE inbuf' = inbuf /\ gpc' = "rep159"
    /\ UNCHANGED <<progVars, workVars, wire, pending, histVars, envVars, guiVars>>

\* read_encoder_position, line 159, on the main thread
gui_rep159 ==
    /\ GuiAt("rep159")
    /\ wire' = Append(wire, [Cmd("M893") EXCEPT !.term = "\n"])
    /\ pending' = Append(pending, Received("M893", Len(wire) + 1))
    /\ gk' = 0
    /\ gpc' = "rep163"
    /\ InTrace
    /\ UNCHANGED <<progVars, workVars, inbuf, histVars, envVars>>
    /\ UNCHANGED <<mode, gwaiting, genc, queued>>

\* the firmware has answered every M893 it received
EncAnswered == \A j \in 1..Len(pending) : pending[j].kind # "M893"

\* read_encoder_position, lines 163-174, on the main thread.  Attempts on an
\* empty buffer pass together: the main thread reads the line that has arrived,
\* or sleeps through what is left of its attempts, in which time the firmware
\* answers.
gui_rep163 ==
    /\ GuiAt("rep163")
    /\ IF gk >= EncAttempts
       THEN /\ genc' = None
            /\ gpc' = "gpe180"
            /\ UNCHANGED <<gk, inbuf>>
       ELSE IF inbuf = <<>>
       THEN /\ EncAnswered
            /\ gk' = EncAttempts
            /\ UNCHANGED <<genc, gpc, inbuf>>
       ELSE /\ inbuf' = Tail(inbuf)
            /\ IF EncFilter(Strip(Head(inbuf).txt))
               THEN genc' = Some(Strip(Head(inbuf).txt)) /\ gpc' = "gpe180" /\ gk' = gk
               ELSE genc' = genc /\ gpc' = gpc /\ gk' = gk + 1
    /\ UNCHANGED <<progVars, workVars, wire, pending, histVars, envVars>>
    /\ UNCHANGED <<mode, gwaiting, queued>>

\* get_position_from_encoder, lines 180-196, on the main thread; the handler
\* ends with refresh_display, and its locals are gone
gui_gpe180 ==
    /\ GuiAt("gpe180")
    /\ current_pos' = IF Truthy(genc)
                      THEN ParseEncoderParts(Split(Strip(Remove(genc[1], S_M894))), current_pos)
                      ELSE current_pos
    /\ gpc' = "idle"
    /\ gk' = 0
    /\ genc' = None
    /\ UNCHANGED <<connected, positions, is_running, pause_requested, stop_requested,
                   workVars, ioVars, histVars, envVars>>
    /\ UNCHANGED <<mode, gwaiting, queued>>

\* BladeLoaderGUI.start_cycle, lines 355-377: connected, a pick and hooks
\* taught; the run button is disabled, the pause and stop buttons enabled,
\* and the worker thread started
start_cycle ==
    /\ MainLoopFree
    /\ connected
    /\ positions.pick # None
    /\ positions.hooks # <<>>
    /\ run_full_cycle

\* BladeLoaderGUI.test_hook, lines 327-339: connected, a hook selected; the
\* worker thread is started
test_hook ==
    /\ MainLoopFree
    /\ connected
    /\ Begin("test_single_hook", "tsh470")
    /\ \E sel \in 0..(Len(positions.hooks) - 1) : hook_index' = sel

\* test_single_hook returns (line 480) and the thread of test_hook, line 336,
\* queues get_position_from_encoder for the main thread
th336 ==
    /\ At("tsh480")
    /\ is_running' = FALSE
    /\ pc' = "idle"
    /\ queued' = TRUE
    /\ UNCHANGED <<connected, positions, current_pos, pause_requested, stop_requested,
                   op, i, num_hooks, hook_index, k, enc, waiting, gpc, ioVars, histVars>>
    /\ UNCHANGED <<envVars, mode, gwaiting, gk, genc>>

\* the main loop runs the queued get_position_from_encoder
after336 ==
    /\ gpc = "idle"
    /\ queued
    /\ queued' = FALSE
    /\ gpc' = "jog237"
    /\ UNCHANGED <<progVars, workVars, ioVars, histVars, envVars>>
    /\ UNCHANGED <<mode, gwaiting, gk, genc>>

\* the steps of the two threads, the worker's writes within the trace that is
\* followed.  The pause and stop buttons are not pressed here, so that the
\* worker never enters the loop of line 445.
GuiNext ==
    \/ Connect \/ Disconnect \/ PeerReply
    \/ start_cycle \/ test_hook
    \/ ReadOk
    \/ pick_blade \/ (pick_blade_send /\ InTrace) \/ pick_blade_return
    \/ place_blade \/ (place_blade_send /\ InTrace) \/ place_blade_return
    \/ rfc429 \/ rfc430 \/ rfc431 \/ (rfc434 /\ InTrace) \/ rfc436 \/ rfc438
    \/ rfc439 \/ rfc444 \/ rfc452 \/ rfc455 \/ rfc458
    \/ (rfc461 /\ InTrace) \/ (rfc462 /\ InTrace) \/ gh83 \/ rfc463
    \/ tsh470 \/ tsh471 \/ tsh477 \/ (tsh479 /\ InTrace) \/ th336
    \/ gui_jog \/ jog108 \/ jog112 \/ jog113 \/ GuiReadOk
    \/ gui_rep154 \/ gui_rep159 \/ gui_rep163 \/ gui_gpe180 \/ after336

GuiSpec == GuiInit /\ [][GuiNext]_vars

\* a worker thread started by start_cycle or test_hook is running
WorkerRuns == pc # "idle" /\ op \in {"run_full_cycle", "test_single_hook"}

\* C25 (as claimed): while a worker thread started by the front end runs, the
\* main thread is in no handler other than the cycle controls: it calls no
\* controller operation that uses the port.
C25_OnlyControlsDuringCycle ==
    WorkerRuns => gpc \in {"idle", "stop496"}

\* a G1 of pick_blade or place_blade is written to the port
CycleMoveSent ==
    /\ Len(wire') = Len(wire) + 1
    /\ wire'[Len(wire')].op = "G1" /\ wire'[Len(wire')].f = Feedrate

\* C28 (as claimed): the firmware is in absolute mode whenever a move of
\* pick_blade or place_blade is transmitted, none of them falling between the
\* G91 and the G90 of a jog.
C28_CycleMovesAbsolute ==
    [][CycleMoveSent => mode = "abs"]_vars


====
